---- MODULE Spec2Model ----
(***************************************************************************)
(* Position-aware decoder of SCID game records                             *)
(* (experiments/scid_parser: position.rs and sg4.rs).                      *)
(*                                                                         *)
(* The move section of one game record is tokenized into elements, and the *)
(* elements are then processed one by one against a ChessPosition and a    *)
(* VariationTree.  `data` is the slice that starts at moves_start_offset,  *)
(* so element offsets are counted from the first byte of the move section. *)
(*                                                                         *)
(* Option<T> is modelled as a sequence: <<>> is None, <<x>> is Some(x).    *)
(* Result<T, E> is a record with field ok, and val or err.                 *)
(* Square(n) is the integer n in 0..63; board[rank][file] is modelled as   *)
(* the function board[rank * 8 + file].  A String is the sequence of its   *)
(* characters.  The field `decoded` of GameElement::Move, a description    *)
(* for display that the position-aware parse never reads, is left out.     *)
(***************************************************************************)
EXTENDS Integers, Sequences, FiniteSets, TLC

VARIABLES
    data,               \* game_data from moves_start_offset on
    pos,                \* parse_pgn_tags: read position in data (0-based)
    elements,           \* parse_pgn_tags: Vec<GameElement>
    pc,                 \* "tokenize", "process", "done", or "call" / "returned"
    elem_idx,           \* index (1-based) of the next element of the loop
    position,           \* ChessPosition
    variation_tree,     \* VariationTree
    moves,              \* Vec<Move>
    algebraic_notation, \* Vec<String>
    move_count,
    in_variation,
    result,             \* None while running, else the Result of the parse
    last,               \* what the last iteration of the element loop did
    call,               \* a direct call of one function: its name and inputs
    ret,                \* None, or Some(value returned by that call)
    earlier             \* None, or Some(what an earlier parse of data returned)

vars == <<data, pos, elements, pc, elem_idx, position, variation_tree, moves,
          algebraic_notation, move_count, in_variation, result, last, call, ret, earlier>>

-----------------------------------------------------------------------------
(* Option and Result *)

None == <<>>

Some(x) == <<x>>

IsSome(o) == Len(o) = 1

IsNone(o) == Len(o) = 0

Unwrap(o) == o[1]

Ok(v) == [ok |-> TRUE, val |-> v]

Err(m) == [ok |-> FALSE, err |-> m]

Last(s) == s[Len(s)]

MapInsert(m, k, v) == [x \in (DOMAIN m) \cup {k} |-> IF x = k THEN v ELSE m[x]]

MapRemove(m, k) == [x \in (DOMAIN m) \ {k} |-> m[x]]

MapGet(m, k) == IF k \in DOMAIN m THEN Some(m[k]) ELSE None

EmptyMap == [x \in {} |-> 0]

-----------------------------------------------------------------------------
(* Bounds of the model *)

\* longest move section drawn over Alphabet
MaxLen == 3

\* longest tail, drawn over Alphabet, that follows an arbitrary first byte
MaxTail == 1

-----------------------------------------------------------------------------
(* position.rs: pieces and squares *)

White == "White"

Black == "Black"

opposite(color) == IF color = White THEN Black ELSE White

Piece(t, c, i) == [piece_type |-> t, color |-> c, id |-> i]

FileIndex == [a |-> 0, b |-> 1, c |-> 2, d |-> 3, e |-> 4, f |-> 5, g |-> 6, h |-> 7]

FileChar == <<"a", "b", "c", "d", "e", "f", "g", "h">>

RankChar == <<"1", "2", "3", "4", "5", "6", "7", "8">>

\* u8 arithmetic: `as u8` casts and wrapping_sub
U8(n) == n % 256

SquareNew(file, rank) ==
    IF file >= 8 \/ rank >= 8
    THEN Err("Invalid square")
    ELSE Ok(rank * 8 + file)

\* from_algebraic on the two characters of the notation; rank is the digit
from_algebraic(fileChar, rankDigit) ==
    IF fileChar \notin DOMAIN FileIndex THEN Err("Invalid file")
    ELSE IF rankDigit \notin 1..8 THEN Err("Invalid rank")
    ELSE Ok((rankDigit - 1) * 8 + FileIndex[fileChar])

file(sq) == sq % 8

rank(sq) == sq \div 8

to_algebraic(sq) == <<FileChar[file(sq) + 1], RankChar[rank(sq) + 1]>>

CastlingRightsNew ==
    [white_kingside |-> TRUE, white_queenside |-> TRUE,
     black_kingside |-> TRUE, black_queenside |-> TRUE]

\* kingside is an Option<bool>
disable_castling(cr, color, kingside) ==
    IF color = White
    THEN IF kingside = Some(TRUE) THEN [cr EXCEPT !.white_kingside = FALSE]
         ELSE IF kingside = Some(FALSE) THEN [cr EXCEPT !.white_queenside = FALSE]
         ELSE [cr EXCEPT !.white_kingside = FALSE, !.white_queenside = FALSE]
    ELSE IF kingside = Some(TRUE) THEN [cr EXCEPT !.black_kingside = FALSE]
         ELSE IF kingside = Some(FALSE) THEN [cr EXCEPT !.black_queenside = FALSE]
         ELSE [cr EXCEPT !.black_kingside = FALSE, !.black_queenside = FALSE]

MoveNew(from, to, piece) ==
    [from |-> from, to |-> to, piece |-> piece,
     captured_piece |-> None, promotion |-> None,
     is_castling |-> FALSE, is_en_passant |-> FALSE,
     gives_check |-> FALSE, is_checkmate |-> FALSE]

-----------------------------------------------------------------------------
(* position.rs: ChessPosition *)

place_piece(p, square, piece) ==
    [p EXCEPT !.board = [@ EXCEPT ![square] = Some(piece)],
              !.piece_locations = MapInsert(@, piece.id, square),
              !.square_occupants = MapInsert(@, square, piece)]

\* the sixteen place_piece calls of setup_starting_pieces for the back ranks
back_rank_pieces ==
    << <<"a", 1, Piece("Rook",   White, 2)>>,
       <<"b", 1, Piece("Knight", White, 11)>>,
       <<"c", 1, Piece("Bishop", White, 10)>>,
       <<"d", 1, Piece("Queen",  White, 1)>>,
       <<"e", 1, Piece("King",   White, 0)>>,
       <<"f", 1, Piece("Bishop", White, 3)>>,
       <<"g", 1, Piece("Knight", White, 4)>>,
       <<"h", 1, Piece("Rook",   White, 9)>>,
       <<"a", 8, Piece("Rook",   Black, 18)>>,
       <<"b", 8, Piece("Knight", Black, 27)>>,
       <<"c", 8, Piece("Bishop", Black, 26)>>,
       <<"d", 8, Piece("Queen",  Black, 17)>>,
       <<"e", 8, Piece("King",   Black, 16)>>,
       <<"f", 8, Piece("Bishop", Black, 19)>>,
       <<"g", 8, Piece("Knight", Black, 20)>>,
       <<"h", 8, Piece("Rook",   Black, 25)>> >>

\* white_pawn_ids with the id of the g-pawn given to the h-pawn too
white_pawn_ids_repeated == <<5, 6, 7, 8, 12, 13, 14, 14>>

white_pawn_ids == <<5, 6, 7, 8, 12, 13, 14, 15>>

black_pawn_ids == <<21, 22, 23, 24, 28, 29, 30, 31>>

RECURSIVE place_back_rank(_, _)
place_back_rank(p, i) ==
    IF i > Len(back_rank_pieces) THEN p
    ELSE LET e == back_rank_pieces[i]
         IN  place_back_rank(place_piece(p, from_algebraic(e[1], e[2]).val, e[3]), i + 1)

\* for file in 0..8 { place_piece(Square::new(file, rank), Pawn of color, ids[file]) }
RECURSIVE place_pawns(_, _, _, _, _)
place_pawns(p, f, r, color, ids) ==
    IF f >= 8 THEN p
    ELSE place_pawns(place_piece(p, SquareNew(f, r).val, Piece("Pawn", color, ids[f + 1])),
                     f + 1, r, color, ids)

setup_starting_pieces(p) ==
    LET p1 == place_back_rank(p, 1)
        p2 == place_pawns(p1, 0, 1, White, white_pawn_ids)
    IN  place_pawns(p2, 0, 6, Black, black_pawn_ids)

starting_position ==
    setup_starting_pieces(
        [board |-> [sq \in 0..63 |-> None],
         piece_locations |-> EmptyMap,
         square_occupants |-> EmptyMap,
         castling_rights |-> CastlingRightsNew,
         en_passant_target |-> None,
         to_move |-> White,
         half_moves |-> 0,
         full_moves |-> 1,
         move_history |-> <<>>])

get_piece_at(p, square) == p.board[square]

get_piece_location(p, piece_num) == MapGet(p.piece_locations, piece_num)

get_piece_by_number(p, piece_num) ==
    IF piece_num \in DOMAIN p.piece_locations
    THEN get_piece_at(p, p.piece_locations[piece_num])
    ELSE None

-----------------------------------------------------------------------------
(* position.rs: apply_move and its helpers.  Each helper returns           *)
(* Ok(position) or, for an early return, [ok |-> FALSE, err, pos] where    *)
(* pos is the position as the call left it (the caller holds &mut self).   *)

Fail(m, p) == [ok |-> FALSE, err |-> m, pos |-> p]

\* (rook_from, rook_to) selected by the king's color and destination file
castling_rook_squares(color, toFile) ==
    IF color = White /\ toFile = 6
    THEN Ok(<<from_algebraic("h", 1).val, from_algebraic("f", 1).val>>)
    ELSE IF color = White /\ toFile = 2
    THEN Ok(<<from_algebraic("a", 1).val, from_algebraic("d", 1).val>>)
    ELSE IF color = Black /\ toFile = 6
    THEN Ok(<<from_algebraic("h", 8).val, from_algebraic("f", 8).val>>)
    ELSE IF color = Black /\ toFile = 2
    THEN Ok(<<from_algebraic("a", 8).val, from_algebraic("d", 8).val>>)
    ELSE Err("Invalid castling move")

\* apply_castling_rook_move that takes a corner with no piece on it as
\* nothing to do
apply_castling_rook_move_tolerant(p, chess_move) ==
    LET sel == castling_rook_squares(chess_move.piece.color, file(chess_move.to))
    IN  IF ~sel.ok THEN Fail(sel.err, p)
        ELSE
        LET rook_from == sel.val[1]
            rook_to == sel.val[2]
            found == get_piece_at(p, rook_from)
        IN  IF IsNone(found) THEN Ok(p)
            ELSE
            LET rook == Unwrap(found)
            IN  IF rook.piece_type # "Rook" THEN Fail("Expected rook for castling", p)
                ELSE IF rook.color # chess_move.piece.color
                THEN Fail("Rook belongs to wrong color for castling", p)
                ELSE Ok([p EXCEPT
                        !.board = [@ EXCEPT ![rook_from] = None, ![rook_to] = Some(rook)],
                        !.piece_locations = MapInsert(@, rook.id, rook_to),
                        !.square_occupants =
                            MapInsert(MapRemove(@, rook_from), rook_to, rook)])

apply_castling_rook_move(p, chess_move) ==
    LET sel == castling_rook_squares(chess_move.piece.color, file(chess_move.to))
    IN  IF ~sel.ok THEN Fail(sel.err, p)
        ELSE
        LET rook_from == sel.val[1]
            rook_to == sel.val[2]
            found == get_piece_at(p, rook_from)
        IN  IF IsNone(found) THEN Fail("No rook found for castling", p)
            ELSE
            LET rook == Unwrap(found)
            IN  IF rook.piece_type # "Rook" THEN Fail("Expected rook for castling", p)
                ELSE IF rook.color # chess_move.piece.color
                THEN Fail("Rook belongs to wrong color for castling", p)
                ELSE Ok([p EXCEPT
                        !.board = [@ EXCEPT ![rook_from] = None, ![rook_to] = Some(rook)],
                        !.piece_locations = MapInsert(@, rook.id, rook_to),
                        !.square_occupants =
                            MapInsert(MapRemove(@, rook_from), rook_to, rook)])

\* apply_en_passant_capture that takes the square beyond the destination
apply_en_passant_capture_beyond(p, chess_move) ==
    LET captured_sq ==
            IF chess_move.piece.color = White
            THEN SquareNew(file(chess_move.to), rank(chess_move.to) + 1)
            ELSE SquareNew(file(chess_move.to), U8(rank(chess_move.to) - 1))
    IN  IF ~captured_sq.ok THEN Fail(captured_sq.err, p)
        ELSE
        LET captured_square == captured_sq.val
            found == get_piece_at(p, captured_square)
        IN  IF IsSome(found)
            THEN Ok([p EXCEPT
                    !.board = [@ EXCEPT ![captured_square] = None],
                    !.piece_locations = MapRemove(@, Unwrap(found).id),
                    !.square_occupants = MapRemove(@, captured_square)])
            ELSE Ok(p)

\* to.rank() - 1 on a u8: for rank 0 the subtraction overflows, which panics
\* in a debug build and wraps to 255 in a release build; Square::new then
\* rejects the rank, so in both builds the call does not return Ok.
apply_en_passant_capture(p, chess_move) ==
    LET captured_sq ==
            IF chess_move.piece.color = White
            THEN SquareNew(file(chess_move.to), U8(rank(chess_move.to) - 1))
            ELSE SquareNew(file(chess_move.to), rank(chess_move.to) + 1)
    IN  IF ~captured_sq.ok THEN Fail(captured_sq.err, p)
        ELSE
        LET captured_square == captured_sq.val
            found == get_piece_at(p, captured_square)
        IN  IF IsSome(found)
            THEN Ok([p EXCEPT
                    !.board = [@ EXCEPT ![captured_square] = None],
                    !.piece_locations = MapRemove(@, Unwrap(found).id),
                    !.square_occupants = MapRemove(@, captured_square)])
            ELSE Ok(p)

\* apply_promotion that replaces the piece on the board only
apply_promotion_board_only(p, square, pawn, promotion_type) ==
    LET promoted_piece == Piece(promotion_type, pawn.color, pawn.id)
    IN  Ok([p EXCEPT !.board = [@ EXCEPT ![square] = Some(promoted_piece)]])

apply_promotion(p, square, pawn, promotion_type) ==
    LET promoted_piece == Piece(promotion_type, pawn.color, pawn.id)
    IN  Ok([p EXCEPT
            !.board = [@ EXCEPT ![square] = Some(promoted_piece)],
            !.square_occupants = MapInsert(@, square, promoted_piece)])

update_castling_rights(p, chess_move) ==
    LET cr0 == p.castling_rights
        cr1 == IF chess_move.piece.piece_type = "King"
               THEN disable_castling(cr0, chess_move.piece.color, None)
               ELSE cr0
        cr2 == IF chess_move.piece.piece_type = "Rook"
               THEN disable_castling(cr1, chess_move.piece.color,
                                     Some(file(chess_move.from) > 4))
               ELSE cr1
        cr3 == IF IsSome(chess_move.captured_piece)
                  /\ Unwrap(chess_move.captured_piece).piece_type = "Rook"
               THEN disable_castling(cr2, Unwrap(chess_move.captured_piece).color,
                                     Some(file(chess_move.to) > 4))
               ELSE cr2
    IN  [p EXCEPT !.castling_rights = cr3]

Abs(n) == IF n < 0 THEN -n ELSE n

\* update_en_passant_target without the clearing of the previous target
update_en_passant_target_keeps_previous(p, chess_move) ==
    LET rank_diff == rank(chess_move.to) - rank(chess_move.from)
        target_rank == (rank(chess_move.from) + rank(chess_move.to)) \div 2
        target_square == SquareNew(file(chess_move.to), target_rank)
    IN  IF chess_move.piece.piece_type = "Pawn" /\ Abs(rank_diff) = 2 /\ target_square.ok
        THEN [p EXCEPT !.en_passant_target = Some(target_square.val)]
        ELSE p

update_en_passant_target(p, chess_move) ==
    LET rank_diff == rank(chess_move.to) - rank(chess_move.from)
        target_rank == (rank(chess_move.from) + rank(chess_move.to)) \div 2
        target_square == SquareNew(file(chess_move.to), target_rank)
    IN  IF chess_move.piece.piece_type = "Pawn" /\ Abs(rank_diff) = 2 /\ target_square.ok
        THEN [p EXCEPT !.en_passant_target = Some(target_square.val)]
        ELSE [p EXCEPT !.en_passant_target = None]

\* relocate_piece without the clearing of the source cell of the board
relocate_piece_keeps_source(p, chess_move, piece) ==
    LET target == get_piece_at(p, chess_move.to)
        p1 == IF IsSome(target)
              THEN [p EXCEPT !.piece_locations = MapRemove(@, Unwrap(target).id),
                             !.square_occupants = MapRemove(@, chess_move.to)]
              ELSE p
    IN  [p1 EXCEPT
            !.board = [@ EXCEPT ![chess_move.to] = Some(piece)],
            !.piece_locations = MapInsert(@, piece.id, chess_move.to),
            !.square_occupants =
                MapInsert(MapRemove(@, chess_move.from), chess_move.to, piece)]

\* lines 341-355: capture bookkeeping, then the relocation of the piece
relocate_piece(p, chess_move, piece) ==
    LET target == get_piece_at(p, chess_move.to)
        p1 == IF IsSome(target)
              THEN [p EXCEPT !.piece_locations = MapRemove(@, Unwrap(target).id),
                             !.square_occupants = MapRemove(@, chess_move.to)]
              ELSE p
        b1 == [p1.board EXCEPT ![chess_move.from] = None]
        b2 == [b1 EXCEPT ![chess_move.to] = Some(piece)]
    IN  [p1 EXCEPT
            !.board = b2,
            !.piece_locations = MapInsert(@, piece.id, chess_move.to),
            !.square_occupants =
                MapInsert(MapRemove(@, chess_move.from), chess_move.to, piece)]

\* finish_move that counts a full move after each move of White
finish_move_counts_after_white(p, chess_move) ==
    LET p1 == update_castling_rights(p, chess_move)
        p2 == update_en_passant_target(p1, chess_move)
        hm == IF chess_move.piece.piece_type = "Pawn" \/ IsSome(chess_move.captured_piece)
              THEN 0
              ELSE p2.half_moves + 1
        fm == IF p2.to_move = White THEN p2.full_moves + 1 ELSE p2.full_moves
    IN  [p2 EXCEPT !.half_moves = hm,
                   !.full_moves = fm,
                   !.to_move = opposite(p2.to_move),
                   !.move_history = Append(@, chess_move)]

\* lines 370-391: rights, en-passant target, counters, turn, history
finish_move(p, chess_move) ==
    LET p1 == update_castling_rights(p, chess_move)
        p2 == update_en_passant_target(p1, chess_move)
        hm == IF chess_move.piece.piece_type = "Pawn" \/ IsSome(chess_move.captured_piece)
              THEN 0
              ELSE p2.half_moves + 1
        fm == IF p2.to_move = Black THEN p2.full_moves + 1 ELSE p2.full_moves
    IN  [p2 EXCEPT !.half_moves = hm,
                   !.full_moves = fm,
                   !.to_move = opposite(p2.to_move),
                   !.move_history = Append(@, chess_move)]

\* validate_source without the comparison of the ids
validate_source_any_piece(p, chess_move) ==
    LET source == get_piece_at(p, chess_move.from)
    IN  IF IsNone(source) THEN Fail("No piece at source square", p)
        ELSE Ok(Unwrap(source))

\* validate_source that also refuses a destination held by the mover's side
validate_source_rejects_own_capture(p, chess_move) ==
    LET source == get_piece_at(p, chess_move.from)
        target == get_piece_at(p, chess_move.to)
    IN  IF IsNone(source) THEN Fail("No piece at source square", p)
        ELSE IF Unwrap(source).id # chess_move.piece.id THEN Fail("Piece ID mismatch", p)
        ELSE IF IsSome(target) /\ Unwrap(target).color = Unwrap(source).color
        THEN Fail("Destination held by own piece", p)
        ELSE Ok(Unwrap(source))

\* lines 333-339: Ok(piece at the source) or the early return
validate_source(p, chess_move) ==
    LET source == get_piece_at(p, chess_move.from)
    IN  IF IsNone(source) THEN Fail("No piece at source square", p)
        ELSE IF Unwrap(source).id # chess_move.piece.id THEN Fail("Piece ID mismatch", p)
        ELSE Ok(Unwrap(source))

apply_move(p, chess_move) ==
    LET v == validate_source(p, chess_move)
    IN  IF ~v.ok THEN v
        ELSE
        LET piece == v.val
            p1 == relocate_piece(p, chess_move, piece)
            r2 == IF chess_move.is_castling
                  THEN apply_castling_rook_move(p1, chess_move)
                  ELSE Ok(p1)
        IN  IF ~r2.ok THEN r2
            ELSE
            LET r3 == IF chess_move.is_en_passant
                      THEN apply_en_passant_capture(r2.val, chess_move)
                      ELSE r2
            IN  IF ~r3.ok THEN r3
                ELSE
                LET r4 == IF IsSome(chess_move.promotion)
                          THEN apply_promotion(r3.val, chess_move.to, piece,
                                               Unwrap(chess_move.promotion))
                          ELSE r3
                IN  IF ~r4.ok THEN r4
                    ELSE Ok(finish_move(r4.val, chess_move))

-----------------------------------------------------------------------------
(* sg4.rs: marker bytes *)

ENCODE_NAG == 11

ENCODE_COMMENT == 12

ENCODE_START_MARKER == 13

ENCODE_END_MARKER == 14

ENCODE_END_GAME == 15

ENCODE_FIRST == 11

ENCODE_LAST == 15

-----------------------------------------------------------------------------
(* sg4.rs: target squares by piece type *)

king_square_diffs == <<0, -9, -8, -7, -1, 1, 7, 8, 9, -2, 2>>

decode_king_target(move_value, from_square) ==
    IF move_value = 10
    THEN IF rank(from_square) = 0 THEN from_algebraic("g", 1)
         ELSE IF rank(from_square) = 7 THEN from_algebraic("g", 8)
         ELSE Err("King not on home rank for castling")
    ELSE IF move_value = 11
    THEN IF rank(from_square) = 0 THEN from_algebraic("c", 1)
         ELSE IF rank(from_square) = 7 THEN from_algebraic("c", 8)
         ELSE Err("King not on home rank for castling")
    ELSE IF move_value < Len(king_square_diffs)
    THEN LET target_square_num == from_square + king_square_diffs[move_value + 1]
         IN  IF target_square_num >= 0 /\ target_square_num < 64
             THEN Ok(target_square_num)
             ELSE Err("King move out of bounds")
    ELSE Err("Invalid king move value")

\* decode_rook_target that reads the values from 8 as files and those below
\* as ranks
decode_rook_target_exchanged(move_value, from_square) ==
    IF move_value >= 8
    THEN SquareNew(move_value - 8, rank(from_square))
    ELSE SquareNew(file(from_square), move_value)

decode_rook_target(move_value, from_square) ==
    IF move_value >= 8
    THEN SquareNew(file(from_square), move_value - 8)
    ELSE SquareNew(move_value, rank(from_square))

\* move_value & 7 on a u8
decode_bishop_target(move_value, from_square) ==
    SquareNew(move_value % 8, rank(from_square))

knight_square_diffs == <<0, -17, -15, -10, -6, 6, 10, 15, 17, -33, -31, -19, -13, 13, 19, 33>>

decode_knight_target(move_value, from_square) ==
    IF move_value > 15 THEN Err("Knight move value exceeds maximum range")
    ELSE LET target_square_num == from_square + knight_square_diffs[move_value + 1]
         IN  IF target_square_num >= 0 /\ target_square_num < 64
             THEN Ok(target_square_num)
             ELSE Err("Knight move out of bounds")

RECURSIVE decode_pawn_target(_, _, _)
decode_pawn_target(move_value, from_square, p) ==
    LET found == get_piece_at(p, from_square)
    IN  IF IsNone(found) THEN Err("No piece at from_square for pawn move")
        ELSE
        LET direction == IF Unwrap(found).color = White THEN 1 ELSE -1
        IN  IF move_value = 0
            THEN SquareNew(U8(file(from_square) - 1), U8(rank(from_square) + direction))
            ELSE IF move_value = 1
            THEN SquareNew(file(from_square), U8(rank(from_square) + direction))
            ELSE IF move_value = 2
            THEN SquareNew(file(from_square) + 1, U8(rank(from_square) + direction))
            ELSE IF move_value \in 3..5 THEN decode_pawn_target(move_value - 3, from_square, p)
            ELSE IF move_value \in 6..8 THEN decode_pawn_target(move_value - 6, from_square, p)
            ELSE IF move_value \in 9..11 THEN decode_pawn_target(move_value - 9, from_square, p)
            ELSE IF move_value \in 12..14 THEN decode_pawn_target(move_value - 12, from_square, p)
            ELSE IF move_value = 15
            THEN SquareNew(file(from_square), U8(rank(from_square) + 2 * direction))
            ELSE Err("Invalid pawn move value")

decode_queen_target(move_value, from_square, p) ==
    decode_rook_target(move_value, from_square)

decode_target_square(piece_type, move_value, from_square, p) ==
    CASE piece_type = "King"   -> decode_king_target(move_value, from_square)
      [] piece_type = "Queen"  -> decode_queen_target(move_value, from_square, p)
      [] piece_type = "Rook"   -> decode_rook_target(move_value, from_square)
      [] piece_type = "Bishop" -> decode_bishop_target(move_value, from_square)
      [] piece_type = "Knight" -> decode_knight_target(move_value, from_square)
      [] piece_type = "Pawn"   -> decode_pawn_target(move_value, from_square, p)

-----------------------------------------------------------------------------
(* sg4.rs: special moves, piece numbers, notation *)

is_castling_move(piece_type, from_square, to_square) ==
    /\ piece_type = "King"
    /\ file(from_square) = 4
    /\ (file(to_square) = 6 \/ file(to_square) = 2)

\* is_castling_legal that takes any piece on the corner for the rook
is_castling_legal_any_piece(from_square, to_square, p) ==
    LET is_kingside == file(to_square) = 6
        found == get_piece_at(p, from_square)
        color == IF IsSome(found) THEN Unwrap(found).color ELSE White
        rook_square ==
            IF color = White
            THEN IF is_kingside THEN from_algebraic("h", 1) ELSE from_algebraic("a", 1)
            ELSE IF is_kingside THEN from_algebraic("h", 8) ELSE from_algebraic("a", 8)
    IN  rook_square.ok /\ IsSome(get_piece_at(p, rook_square.val))

is_castling_legal(from_square, to_square, p) ==
    LET is_kingside == file(to_square) = 6
        found == get_piece_at(p, from_square)
        color == IF IsSome(found) THEN Unwrap(found).color ELSE White
        rook_square ==
            IF color = White
            THEN IF is_kingside THEN from_algebraic("h", 1) ELSE from_algebraic("a", 1)
            ELSE IF is_kingside THEN from_algebraic("h", 8) ELSE from_algebraic("a", 8)
    IN  IF rook_square.ok
        THEN LET rook == get_piece_at(p, rook_square.val)
             IN  IF IsSome(rook)
                 THEN Unwrap(rook).piece_type = "Rook" /\ Unwrap(rook).color = color
                 ELSE FALSE
        ELSE FALSE

is_en_passant_move(piece_type, from_square, to_square, p) ==
    /\ piece_type = "Pawn"
    /\ p.en_passant_target = Some(to_square)
    /\ file(from_square) # file(to_square)

\* decode_pawn_promotion with the rook and bishop arms exchanged
decode_pawn_promotion_arms_exchanged(move_value) ==
    IF move_value \in 3..5 THEN Some("Queen")
    ELSE IF move_value \in 6..8 THEN Some("Bishop")
    ELSE IF move_value \in 9..11 THEN Some("Rook")
    ELSE IF move_value \in 12..14 THEN Some("Knight")
    ELSE None

decode_pawn_promotion(move_value) ==
    IF move_value \in 3..5 THEN Some("Queen")
    ELSE IF move_value \in 6..8 THEN Some("Rook")
    ELSE IF move_value \in 9..11 THEN Some("Bishop")
    ELSE IF move_value \in 12..14 THEN Some("Knight")
    ELSE None

\* the two match tables, one arm per piece number
white_piece_ids == <<0, 1, 2, 3, 4, 5, 6, 7, 8, 9, 10, 11, 12, 13, 14, 15>>

\* black_piece_ids with the arm of piece number 9 returning 24
black_piece_ids_typo == <<16, 17, 18, 19, 20, 21, 22, 23, 24, 24, 26, 27, 28, 29, 30, 31>>

black_piece_ids == <<16, 17, 18, 19, 20, 21, 22, 23, 24, 25, 26, 27, 28, 29, 30, 31>>

map_scid_piece_number_to_actual(scid_piece_num, to_move) ==
    IF to_move = White
    THEN IF scid_piece_num < Len(white_piece_ids)
         THEN Ok(white_piece_ids[scid_piece_num + 1])
         ELSE Err("Invalid SCID piece number for White")
    ELSE IF scid_piece_num < Len(black_piece_ids)
         THEN Ok(black_piece_ids[scid_piece_num + 1])
         ELSE Err("Invalid SCID piece number for Black")

\* a String is modelled as the sequence of its characters
piece_symbol(piece_type) ==
    CASE piece_type = "King"   -> <<"K">>
      [] piece_type = "Queen"  -> <<"Q">>
      [] piece_type = "Rook"   -> <<"R">>
      [] piece_type = "Bishop" -> <<"B">>
      [] piece_type = "Knight" -> <<"N">>
      [] piece_type = "Pawn"   -> <<>>

promotion_suffix(promotion) ==
    IF IsNone(promotion) THEN <<>>
    ELSE CASE Unwrap(promotion) = "Queen"  -> <<"=", "Q">>
           [] Unwrap(promotion) = "Rook"   -> <<"=", "R">>
           [] Unwrap(promotion) = "Bishop" -> <<"=", "B">>
           [] Unwrap(promotion) = "Knight" -> <<"=", "N">>
           [] OTHER -> <<>>

\* generate_basic_algebraic_notation that never writes the capture sign
generate_basic_algebraic_notation_no_capture(chess_move, p) ==
    IF chess_move.is_castling
    THEN IF file(chess_move.to) > file(chess_move.from)
         THEN Ok(<<"O", "-", "O">>)
         ELSE Ok(<<"O", "-", "O", "-", "O">>)
    ELSE Ok(piece_symbol(chess_move.piece.piece_type)
            \o to_algebraic(chess_move.to) \o promotion_suffix(chess_move.promotion))

generate_basic_algebraic_notation(chess_move, p) ==
    IF chess_move.is_castling
    THEN IF file(chess_move.to) > file(chess_move.from)
         THEN Ok(<<"O", "-", "O">>)
         ELSE Ok(<<"O", "-", "O", "-", "O">>)
    ELSE LET capture == IF IsSome(chess_move.captured_piece) THEN <<"x">> ELSE <<>>
         IN  Ok(piece_symbol(chess_move.piece.piece_type) \o capture
                \o to_algebraic(chess_move.to) \o promotion_suffix(chess_move.promotion))

\* returns Ok(<<Move, notation>>) or Err
decode_move_with_position(piece_num, move_value, raw_byte, p) ==
    LET actual == map_scid_piece_number_to_actual(piece_num, p.to_move)
    IN  IF ~actual.ok THEN actual
        ELSE
        LET actual_piece_id == actual.val
            found == get_piece_by_number(p, actual_piece_id)
            location == get_piece_location(p, actual_piece_id)
        IN  IF IsNone(found) THEN Err("Piece not found on board - position tracking error")
            ELSE IF IsNone(location) THEN Err("Location of piece not tracked")
            ELSE
            LET piece == Unwrap(found)
                from_square == Unwrap(location)
                target == decode_target_square(piece.piece_type, move_value, from_square, p)
            IN  IF ~target.ok THEN target
                ELSE
                LET to_square == target.val
                    m0 == MoveNew(from_square, to_square, piece)
                    chess_move ==
                        [m0 EXCEPT
                            !.captured_piece = get_piece_at(p, to_square),
                            !.is_castling =
                                is_castling_move(piece.piece_type, from_square, to_square)
                                /\ is_castling_legal(from_square, to_square, p),
                            !.is_en_passant =
                                is_en_passant_move(piece.piece_type, from_square, to_square, p),
                            !.promotion =
                                IF piece.piece_type = "Pawn"
                                THEN decode_pawn_promotion(move_value)
                                ELSE None]
                    notation == generate_basic_algebraic_notation(chess_move, p)
                IN  IF ~notation.ok THEN notation
                    ELSE Ok(<<chess_move, notation.val>>)

-----------------------------------------------------------------------------
(* sg4.rs: VariationTree *)

VariationTreeNew == [main_line |-> <<>>, current_depth |-> 0, variation_stack |-> <<>>]

GameNode(element, move_number) ==
    [element |-> element, variations |-> <<>>, parent |-> None, move_number |-> move_number]

\* push onto the last list of a stack of lists
PushOnLast(stack, node) == [stack EXCEPT ![Len(stack)] = Append(@, node)]

\* AttachToLast that attaches to the first node of the list
AttachToLast_first(line, variation) ==
    [line EXCEPT ![1].variations = Append(@, variation)]

\* push a variation onto the variations of the last node of a list
AttachToLast(line, variation) ==
    [line EXCEPT ![Len(line)].variations = Append(@, variation)]

\* add_move that appends to the main line at every depth
add_move_main_line_only(t, element, move_number) ==
    [t EXCEPT !.main_line = Append(@, GameNode(element, move_number))]

add_move(t, element, move_number) ==
    LET node == GameNode(element, move_number)
    IN  IF t.current_depth = 0
        THEN [t EXCEPT !.main_line = Append(@, node)]
        ELSE IF Len(t.variation_stack) > 0
             THEN [t EXCEPT !.variation_stack = PushOnLast(@, node)]
             ELSE t

start_variation(t) ==
    Ok([t EXCEPT !.current_depth = @ + 1,
                 !.variation_stack = Append(@, <<>>)])

\* end_variation that takes a call at depth 0 as a no-op
end_variation_tolerant(t) ==
    IF t.current_depth = 0 THEN Ok(t)
    ELSE
    LET t1 ==
            IF Len(t.variation_stack) > 0
            THEN LET variation == [main_line |-> Last(t.variation_stack),
                                   current_depth |-> 0,
                                   variation_stack |-> <<>>]
                     popped == SubSeq(t.variation_stack, 1, Len(t.variation_stack) - 1)
                 IN  IF t.current_depth = 1
                     THEN IF Len(t.main_line) > 0
                          THEN [t EXCEPT !.variation_stack = popped,
                                         !.main_line = AttachToLast(@, variation)]
                          ELSE [t EXCEPT !.variation_stack = popped]
                     ELSE IF Len(popped) > 0 /\ Len(Last(popped)) > 0
                          THEN [t EXCEPT !.variation_stack =
                                    [popped EXCEPT ![Len(popped)] = AttachToLast(@, variation)]]
                          ELSE [t EXCEPT !.variation_stack = popped]
            ELSE t
    IN  Ok([t1 EXCEPT !.current_depth = @ - 1])

\* returns Ok(tree), or Fail with the tree unchanged
end_variation(t) ==
    IF t.current_depth = 0 THEN Fail("Cannot end variation - not in a variation", t)
    ELSE
    LET t1 ==
            IF Len(t.variation_stack) > 0
            THEN LET variation == [main_line |-> Last(t.variation_stack),
                                   current_depth |-> 0,
                                   variation_stack |-> <<>>]
                     popped == SubSeq(t.variation_stack, 1, Len(t.variation_stack) - 1)
                 IN  IF t.current_depth = 1
                     THEN IF Len(t.main_line) > 0
                          THEN [t EXCEPT !.variation_stack = popped,
                                         !.main_line = AttachToLast(@, variation)]
                          ELSE [t EXCEPT !.variation_stack = popped]
                     ELSE IF Len(popped) > 0 /\ Len(Last(popped)) > 0
                          THEN [t EXCEPT !.variation_stack =
                                    [popped EXCEPT ![Len(popped)] = AttachToLast(@, variation)]]
                          ELSE [t EXCEPT !.variation_stack = popped]
            ELSE t
    IN  Ok([t1 EXCEPT !.current_depth = @ - 1])

is_in_variation(t) == t.current_depth > 0

-----------------------------------------------------------------------------
(* sg4.rs: the element loop of parse_pgn_tags *)

\* game_data[i] for a 0-based index i
ByteAt(d, i) == d[i + 1]

needs_queen_second_byte(move_value, first_byte) ==
    move_value >= 8 /\ (first_byte \div 128) % 2 = 0

needs_king_second_byte(move_value) == move_value >= 12

needs_pawn_second_byte(move_value) == move_value >= 14

\* (first_byte & 0xF0) == 0x10
needs_rare_third_byte(piece_num, move_value, first_byte) ==
    piece_num <= 1 /\ move_value >= 14 /\ first_byte \div 16 = 1

\* is_valid_second_move_byte that lets the end-of-game byte through
is_valid_second_move_byte_below_last(byte) == byte < ENCODE_FIRST \/ byte >= ENCODE_LAST

is_valid_second_move_byte(byte) == byte < ENCODE_FIRST \/ byte > ENCODE_LAST

is_valid_third_move_byte(byte) == is_valid_second_move_byte(byte)

\* the second byte is taken when it exists and is not a marker
TakeSecondByte(game_data, start_pos) ==
    /\ start_pos + 1 < Len(game_data)
    /\ is_valid_second_move_byte(ByteAt(game_data, start_pos + 1))

\* returns Ok(<<bytes_consumed, move_bytes>>)
parse_multi_byte_move(game_data, start_pos, piece_num, move_value) ==
    IF start_pos >= Len(game_data)
    THEN Err("Invalid start position for multi-byte move parsing")
    ELSE
    LET first_byte == ByteAt(game_data, start_pos)
        one == Ok(<<1, <<first_byte>> >>)
        two == Ok(<<2, <<first_byte, ByteAt(game_data, start_pos + 1)>> >>)
    IN  IF piece_num = 1
        THEN IF needs_queen_second_byte(move_value, first_byte)
                /\ TakeSecondByte(game_data, start_pos)
             THEN two ELSE one
        ELSE IF piece_num = 0
        THEN IF needs_king_second_byte(move_value) /\ TakeSecondByte(game_data, start_pos)
             THEN two ELSE one
        ELSE IF piece_num \in 5..8 \/ piece_num \in 12..15
        THEN IF needs_pawn_second_byte(move_value) /\ TakeSecondByte(game_data, start_pos)
             THEN two ELSE one
        ELSE IF /\ needs_rare_third_byte(piece_num, move_value, first_byte)
                /\ start_pos + 2 < Len(game_data)
                /\ is_valid_second_move_byte(ByteAt(game_data, start_pos + 1))
                /\ is_valid_third_move_byte(ByteAt(game_data, start_pos + 2))
             THEN Ok(<<3, <<first_byte, ByteAt(game_data, start_pos + 1),
                            ByteAt(game_data, start_pos + 2)>> >>)
             ELSE one

\* index of the first zero byte at or after i, or Len(d) when there is none
RECURSIVE find_null(_, _)
find_null(d, i) ==
    IF i < Len(d) /\ ByteAt(d, i) # 0 THEN find_null(d, i + 1) ELSE i

\* MoveElement with the two nibbles exchanged
MoveElement_swapped(byte_val, offset) ==
    [kind |-> "Move", piece_num |-> byte_val % 16,
     move_value |-> (byte_val \div 16) % 16, raw_byte |-> byte_val, offset |-> offset]

MoveElement(byte_val, offset) ==
    [kind |-> "Move", piece_num |-> (byte_val \div 16) % 16,
     move_value |-> byte_val % 16, raw_byte |-> byte_val, offset |-> offset]

NagElement(nag_value, offset) ==
    [kind |-> "Nag", nag_value |-> nag_value, offset |-> offset]

CommentElement(text, offset) ==
    [kind |-> "Comment", text |-> text, offset |-> offset]

MarkerElement(kind, offset) == [kind |-> kind, offset |-> offset]

-----------------------------------------------------------------------------
(* src/scid/index.rs: GameIndex::date_string *)

DigitChar == <<"0", "1", "2", "3", "4", "5", "6", "7", "8", "9">>

\* the decimal digits of n, most significant first
RECURSIVE Decimal(_)
Decimal(n) ==
    IF n < 10 THEN <<DigitChar[n + 1]>>
    ELSE Append(Decimal(n \div 10), DigitChar[(n % 10) + 1])

\* format!("{:0w}", n): zeros on the left up to the minimum width w
RECURSIVE ZeroPad(_, _)
ZeroPad(digits, width) ==
    IF Len(digits) >= width THEN digits ELSE ZeroPad(<<"0">> \o digits, width)

\* date_string with the upper limit of the year taken as invalid too
date_string_excludes_limit(year, month, day) ==
    IF year = 0 \/ year >= 2100
    THEN <<"?", "?", "?", "?", ".", "?", "?", ".", "?", "?">>
    ELSE LET safe_month == IF month = 0 \/ month > 12 THEN 1 ELSE month
             safe_day == IF day = 0 \/ day > 31 THEN 1 ELSE day
         IN  ZeroPad(Decimal(year), 4) \o <<".">> \o ZeroPad(Decimal(safe_month), 2)
                 \o <<".">> \o ZeroPad(Decimal(safe_day), 2)

date_string(year, month, day) ==
    IF year = 0 \/ year > 2100
    THEN <<"?", "?", "?", "?", ".", "?", "?", ".", "?", "?">>
    ELSE LET safe_month == IF month = 0 \/ month > 12 THEN 1 ELSE month
             safe_day == IF day = 0 \/ day > 31 THEN 1 ELSE day
         IN  ZeroPad(Decimal(year), 4) \o <<".">> \o ZeroPad(Decimal(safe_month), 2)
                 \o <<".">> \o ZeroPad(Decimal(safe_day), 2)

-----------------------------------------------------------------------------
(* The move sections that are parsed *)

\* 0x00 king stays / terminator, 0x0A king to the g-file, the five markers,
\* 0x24 piece 2 (rook) to the e-file, 0x50 piece 5 (a-pawn) capture to the
\* left, 0xCF piece 12 (e-pawn) double push
Alphabet == {0, 10, 11, 12, 13, 14, 15, 36, 80, 207}

Bytes == 0..255

BoundedSeq(S, n) == UNION {[1..k -> S] : k \in 0..n}

\* longer games: Nh3, king stays, king to the empty g1 with the rook on h1;
\* and king stays, d7-d5, king stays, d5-d4, e2-e4, d4 takes on e3 (the byte
\* after each double push is taken as its extension byte)
\* and games with variations: one move, then a variation of one move; Nf3
\* Nf6, then a variation of three moves whose second move has a variation of
\* two moves, the last of which does not decode; the rook of a1 to g1, Nf6,
\* the rook of g1 to f1; and the king to e2, Nf6, the king two files to c2;
\* and king moves to the corner file with no rook on the corner: the rook of
\* h1 to h3, Nf6, king to g1; the rook of a1 to a3, Nf6, king to c1; Nh3,
\* the rook of h8 takes the rook on h1, king to g1; the rook to h3, Nf6,
\* then king to g1 in a variation; and e2-e4, king stays, e4-e5, d7-d5, e5
\* takes on d6; and a variation that follows an annotation: king to g1, a
\* NAG, a variation of one move; and one that follows a comment: king to g1,
\* a comment, a variation of one move, and a move; and e2-e4, d7-d5, the
\* e-pawn takes on d5 with a promotion value; and Nh3, the rook of a8 takes
\* on a1, king stays, the rook takes on f1, king to g1 with the rook on h1,
\* and the piece number of the black rook again
Scenarios ==
    { <<72, 0, 10>>,
      <<0, 143, 0, 0, 129, 207, 0, 130>>,
      <<0, 13, 10, 14>>,
      <<71, 65, 13, 0, 72, 13, 10, 80, 14, 36, 14>>,
      <<38, 65, 37>>,
      <<7, 65, 9>>,
      <<154, 65, 10>>,
      <<42, 65, 9>>,
      <<72, 152, 10>>,
      <<154, 65, 13, 10, 14>>,
      <<207, 0, 0, 193, 143, 0, 192>>,
      <<10, 11, 1, 13, 0, 14>>,
      <<207, 0, 143, 0, 195>>,
      <<72, 40, 0, 37, 10, 36>>,
      <<10, 12, 80, 0, 13, 0, 14, 36>> }

Streams ==
    BoundedSeq(Alphabet, MaxLen)
    \cup {<<b>> \o t : b \in Bytes, t \in BoundedSeq(Alphabet, MaxTail)}
    \cup Scenarios

\* what the last iteration of the element loop did (history, not program state)
NoLast == [kind |-> "none", element |-> MarkerElement("none", 0),
           chess_move |-> None, notation |-> <<>>, before |-> starting_position]

\* the inputs of a direct call of one function (none during a parse)
NoCall == [fn |-> "none", move_value |-> 0, from_square |-> 0,
           scid_piece_num |-> 0, to_move |-> White,
           year |-> 0, month |-> 0, day |-> 0,
           opening |-> <<>>, chess_move |-> None, piece_type |-> "none"]

Init ==
    /\ data \in Streams
    /\ pos = 0
    /\ elements = <<>>
    /\ pc = "tokenize"
    /\ elem_idx = 1
    /\ position = starting_position
    /\ variation_tree = VariationTreeNew
    /\ moves = <<>>
    /\ algebraic_notation = <<>>
    /\ move_count = 0
    /\ in_variation = FALSE
    /\ result = None
    /\ last = NoLast
    /\ call = NoCall
    /\ ret = None
    /\ earlier = None

parse_vars == <<elem_idx, position, variation_tree, moves, algebraic_notation,
                move_count, in_variation, last>>

\* parse_pgn_tags returns Err: parse_game_with_variation_trees returns it
TokFail(msg) ==
    /\ result' = Some(Err(msg))
    /\ pc' = "done"
    /\ UNCHANGED <<pos, elements>>

TokPush(element, next_pos) ==
    /\ elements' = Append(elements, element)
    /\ pos' = next_pos
    /\ UNCHANGED <<pc, result>>

Tokenizing == pc = "tokenize" /\ pos < Len(data)

TokGameEnd ==
    /\ Tokenizing
    /\ ByteAt(data, pos) = ENCODE_END_GAME
    /\ elements' = Append(elements, MarkerElement("GameEnd", pos))
    /\ pos' = pos + 1
    /\ pc' = "process"
    /\ UNCHANGED <<data, result, call, ret, earlier>>
    /\ UNCHANGED parse_vars

\* TokNag that leaves the read position on the value byte
TokNag_keeps_value_byte ==
    /\ Tokenizing
    /\ ByteAt(data, pos) = ENCODE_NAG
    /\ IF pos + 1 >= Len(data)
       THEN TokFail("Missing NAG value byte")
       ELSE TokPush(NagElement(ByteAt(data, pos + 1), pos), pos + 1)
    /\ UNCHANGED <<data, call, ret, earlier>>
    /\ UNCHANGED parse_vars

TokNag ==
    /\ Tokenizing
    /\ ByteAt(data, pos) = ENCODE_NAG
    /\ IF pos + 1 >= Len(data)
       THEN TokFail("Missing NAG value byte")
       ELSE TokPush(NagElement(ByteAt(data, pos + 1), pos), pos + 2)
    /\ UNCHANGED <<data, call, ret, earlier>>
    /\ UNCHANGED parse_vars

\* TokComment that takes the rest of the slice as the text of a comment with
\* no terminator
TokComment_takes_rest ==
    /\ Tokenizing
    /\ ByteAt(data, pos) = ENCODE_COMMENT
    /\ LET comment_start == pos + 1
           comment_end == find_null(data, comment_start)
       IN  TokPush(CommentElement(SubSeq(data, comment_start + 1, comment_end), pos),
                   comment_end + 1)
    /\ UNCHANGED <<data, call, ret, earlier>>
    /\ UNCHANGED parse_vars

TokComment ==
    /\ Tokenizing
    /\ ByteAt(data, pos) = ENCODE_COMMENT
    /\ LET comment_start == pos + 1
           comment_end == find_null(data, comment_start)
       IN  IF comment_end >= Len(data)
           THEN TokFail("Unterminated comment string")
           ELSE TokPush(CommentElement(SubSeq(data, comment_start + 1, comment_end), pos),
                        comment_end + 1)
    /\ UNCHANGED <<data, call, ret, earlier>>
    /\ UNCHANGED parse_vars

TokVariationStart ==
    /\ Tokenizing
    /\ ByteAt(data, pos) = ENCODE_START_MARKER
    /\ TokPush(MarkerElement("VariationStart", pos), pos + 1)
    /\ UNCHANGED <<data, call, ret, earlier>>
    /\ UNCHANGED parse_vars

TokVariationEnd ==
    /\ Tokenizing
    /\ ByteAt(data, pos) = ENCODE_END_MARKER
    /\ TokPush(MarkerElement("VariationEnd", pos), pos + 1)
    /\ UNCHANGED <<data, call, ret, earlier>>
    /\ UNCHANGED parse_vars

TokMove ==
    /\ Tokenizing
    /\ ByteAt(data, pos) \notin ENCODE_FIRST..ENCODE_LAST
    /\ LET byte_val == ByteAt(data, pos)
           element == MoveElement(byte_val, pos)
           multi == parse_multi_byte_move(data, pos, element.piece_num, element.move_value)
       IN  IF ~multi.ok
           THEN TokFail(multi.err)
           ELSE TokPush(element, pos + multi.val[1])
    /\ UNCHANGED <<data, call, ret, earlier>>
    /\ UNCHANGED parse_vars

\* the slice is exhausted: parse_pgn_tags returns Ok(GameParseState)
TokDone ==
    /\ pc = "tokenize"
    /\ pos >= Len(data)
    /\ pc' = "process"
    /\ UNCHANGED <<data, pos, elements, result, call, ret, earlier>>
    /\ UNCHANGED parse_vars

-----------------------------------------------------------------------------
(* sg4.rs: the element loop of parse_game_with_variation_trees *)

Processing == pc = "process" /\ elem_idx <= Len(elements)

Current == elements[elem_idx]

tok_vars == <<data, pos, elements, call, ret, earlier>>

Step(kind, element, chess_move, notation) ==
    [kind |-> kind, element |-> element, chess_move |-> chess_move,
     notation |-> notation, before |-> position]

DoVariationStart ==
    /\ Processing
    /\ Current.kind = "VariationStart"
    /\ variation_tree' = start_variation(variation_tree).val
    /\ in_variation' = TRUE
    /\ elem_idx' = elem_idx + 1
    /\ last' = Step("variation_start", Current, None, <<>>)
    /\ UNCHANGED <<pc, result, position, moves, algebraic_notation, move_count>>
    /\ UNCHANGED tok_vars

\* DoVariationEnd that takes every variation end as the return to the main line
DoVariationEnd_leaves_variation ==
    /\ Processing
    /\ Current.kind = "VariationEnd"
    /\ LET r == end_variation(variation_tree)
       IN  IF r.ok
           THEN /\ variation_tree' = r.val
                /\ in_variation' = FALSE
                /\ elem_idx' = elem_idx + 1
                /\ last' = Step("variation_end", Current, None, <<>>)
                /\ UNCHANGED <<pc, result>>
           ELSE /\ result' = Some(Err(r.err))
                /\ pc' = "done"
                /\ variation_tree' = r.pos
                /\ last' = Step("end_variation_error", Current, None, <<>>)
                /\ UNCHANGED <<in_variation, elem_idx>>
    /\ UNCHANGED <<position, moves, algebraic_notation, move_count>>
    /\ UNCHANGED tok_vars

DoVariationEnd ==
    /\ Processing
    /\ Current.kind = "VariationEnd"
    /\ LET r == end_variation(variation_tree)
       IN  IF r.ok
           THEN /\ variation_tree' = r.val
                /\ in_variation' = is_in_variation(r.val)
                /\ elem_idx' = elem_idx + 1
                /\ last' = Step("variation_end", Current, None, <<>>)
                /\ UNCHANGED <<pc, result>>
           ELSE /\ result' = Some(Err(r.err))
                /\ pc' = "done"
                /\ variation_tree' = r.pos
                /\ last' = Step("end_variation_error", Current, None, <<>>)
                /\ UNCHANGED <<in_variation, elem_idx>>
    /\ UNCHANGED <<position, moves, algebraic_notation, move_count>>
    /\ UNCHANGED tok_vars

\* lines 1882-1915: the move decoded
MoveDecoded(chess_move, notation) ==
    /\ move_count' = move_count + 1
    /\ variation_tree' = add_move(variation_tree, Current, Some(move_count + 1))
    /\ IF ~in_variation
       THEN LET a == apply_move(position, chess_move)
            IN  IF a.ok
                THEN /\ position' = a.val
                     /\ moves' = Append(moves, chess_move)
                     /\ algebraic_notation' = Append(algebraic_notation, notation)
                     /\ elem_idx' = elem_idx + 1
                     /\ last' = Step("applied", Current, Some(chess_move), notation)
                     /\ UNCHANGED <<pc, result>>
                ELSE /\ position' = a.pos
                     /\ result' = Some(Err("Failed to apply move"))
                     /\ pc' = "done"
                     /\ last' = Step("apply_error", Current, Some(chess_move), notation)
                     /\ UNCHANGED <<moves, algebraic_notation, elem_idx>>
       ELSE /\ algebraic_notation' =
                   Append(algebraic_notation, <<"(">> \o notation \o <<")">>)
            /\ elem_idx' = elem_idx + 1
            /\ last' = Step("variation_move", Current, Some(chess_move), notation)
            /\ UNCHANGED <<position, moves, pc, result>>

\* MoveSkipped that passes the turn to the other side
MoveSkipped_switches_turn ==
    /\ move_count' = move_count + 1
    /\ variation_tree' = add_move(variation_tree, Current, Some(move_count + 1))
    /\ elem_idx' = elem_idx + 1
    /\ last' = Step("decode_error", Current, None, <<>>)
    /\ position' = [position EXCEPT !.to_move = opposite(@)]
    /\ UNCHANGED <<moves, algebraic_notation, pc, result>>

\* lines 1916-1929: the move did not decode
MoveSkipped ==
    /\ move_count' = move_count + 1
    /\ variation_tree' = add_move(variation_tree, Current, Some(move_count + 1))
    /\ elem_idx' = elem_idx + 1
    /\ last' = Step("decode_error", Current, None, <<>>)
    /\ UNCHANGED <<position, moves, algebraic_notation, pc, result>>

DoMove ==
    /\ Processing
    /\ Current.kind = "Move"
    /\ LET d == decode_move_with_position(Current.piece_num, Current.move_value,
                                          Current.raw_byte, position)
       IN  IF d.ok THEN MoveDecoded(d.val[1], d.val[2]) ELSE MoveSkipped
    /\ UNCHANGED in_variation
    /\ UNCHANGED tok_vars

DoComment ==
    /\ Processing
    /\ Current.kind = "Comment"
    /\ variation_tree' = add_move(variation_tree, Current, None)
    /\ elem_idx' = elem_idx + 1
    /\ last' = Step("comment", Current, None, <<>>)
    /\ UNCHANGED <<pc, result, position, moves, algebraic_notation, move_count,
                   in_variation>>
    /\ UNCHANGED tok_vars

DoNag ==
    /\ Processing
    /\ Current.kind = "Nag"
    /\ variation_tree' = add_move(variation_tree, Current, None)
    /\ elem_idx' = elem_idx + 1
    /\ last' = Step("nag", Current, None, <<>>)
    /\ UNCHANGED <<pc, result, position, moves, algebraic_notation, move_count,
                   in_variation>>
    /\ UNCHANGED tok_vars

\* GameEnd breaks out of the loop: the parse returns Ok
DoGameEnd ==
    /\ Processing
    /\ Current.kind = "GameEnd"
    /\ result' = Some(Ok("parsed"))
    /\ pc' = "done"
    /\ last' = Step("game_end", Current, None, <<>>)
    /\ UNCHANGED <<elem_idx, position, variation_tree, moves, algebraic_notation,
                   move_count, in_variation>>
    /\ UNCHANGED tok_vars

\* the element list is exhausted: the parse returns Ok
ParseDone ==
    /\ pc = "process"
    /\ elem_idx > Len(elements)
    /\ result' = Some(Ok("parsed"))
    /\ pc' = "done"
    /\ UNCHANGED parse_vars
    /\ UNCHANGED tok_vars

Next ==
    \/ TokGameEnd
    \/ TokNag
    \/ TokComment
    \/ TokVariationStart
    \/ TokVariationEnd
    \/ TokMove
    \/ TokDone
    \/ DoVariationStart
    \/ DoVariationEnd
    \/ DoMove
    \/ DoComment
    \/ DoNag
    \/ DoGameEnd
    \/ ParseDone

Spec == Init /\ [][Next]_vars

-----------------------------------------------------------------------------
(* The same slice parsed a second time: each call of                       *)
(* parse_game_with_variation_trees constructs its position, tree, lists    *)
(* and counters anew and tokenizes the slice again.                        *)

Returned_values ==
    [result |-> result, variation_tree |-> variation_tree, moves |-> moves,
     algebraic_notation |-> algebraic_notation]

\* ParseAgain that goes on from the position the earlier call left
ParseAgain_keeps_position ==
    /\ pc = "done"
    /\ IsNone(earlier)
    /\ earlier' = Some(Returned_values)
    /\ pos' = 0
    /\ elements' = <<>>
    /\ pc' = "tokenize"
    /\ elem_idx' = 1
    /\ variation_tree' = VariationTreeNew
    /\ moves' = <<>>
    /\ algebraic_notation' = <<>>
    /\ move_count' = 0
    /\ in_variation' = FALSE
    /\ result' = None
    /\ last' = NoLast
    /\ UNCHANGED <<data, call, ret, position>>

ParseAgain ==
    /\ pc = "done"
    /\ IsNone(earlier)
    /\ earlier' = Some(Returned_values)
    /\ pos' = 0
    /\ elements' = <<>>
    /\ pc' = "tokenize"
    /\ elem_idx' = 1
    /\ position' = starting_position
    /\ variation_tree' = VariationTreeNew
    /\ moves' = <<>>
    /\ algebraic_notation' = <<>>
    /\ move_count' = 0
    /\ in_variation' = FALSE
    /\ result' = None
    /\ last' = NoLast
    /\ UNCHANGED <<data, call, ret>>

NextTwice ==
    \/ Next
    \/ ParseAgain

SpecTwice == Init /\ [][NextTwice]_vars

-----------------------------------------------------------------------------
(* Direct calls of the pure functions of sg4.rs *)

KingCalls ==
    {[NoCall EXCEPT !.fn = "decode_king_target", !.move_value = v, !.from_square = sq] :
        v \in 0..15, sq \in 0..63}

\* scid_piece_num is a u8
ResolverCalls ==
    {[NoCall EXCEPT !.fn = "map_scid_piece_number_to_actual",
                    !.scid_piece_num = n, !.to_move = c] :
        n \in Bytes, c \in {White, Black}}

\* year is a u16, month and day are u8: the values around every limit
Years == {0, 1, 9, 10, 99, 100, 999, 1000, 1999, 2022, 2099, 2100, 2101, 9999, 10000, 65535}

Months == 0..16 \cup {99, 100, 255}

Days == 0..35 \cup {99, 100, 255}

\* one step of the element loop on a main line of one-byte moves: the move
\* is decoded and applied; a move that does not decode is skipped
PositionAfter(p, byte) ==
    LET d == decode_move_with_position(byte \div 16, byte % 16, byte, p)
    IN  IF ~d.ok THEN p
        ELSE LET a == apply_move(p, d.val[1])
             IN  IF a.ok THEN a.val ELSE a.pos

\* main lines before a direct call of apply_move: none; Nh3 Nf6; the rook of
\* h1 to h3, Nf6; the rook of a1 to a3, Nf6; the rook to h3, Nf6, the queen
\* to h1, Ng4; Nf3, the rook of h8 to h3, king stays; Nf3, the rook of a8 to
\* a3, king stays; and two that leave an en-passant target: e2-e4; Nh3 e7-e5
Openings ==
    { <<>>, <<72, 65>>, <<154, 65>>, <<42, 65>>, <<154, 65, 23, 66>>,
      <<71, 154, 0>>, <<71, 42, 0>>, <<207>>, <<72, 207>> }

MoveBytes == Bytes \ (ENCODE_FIRST..ENCODE_LAST)

\* the moves that decode in p, and each king move to the c- or g-file again
\* with the castling flag set by the caller
MovesIn(p) ==
    LET decoded == {decode_move_with_position(b \div 16, b % 16, b, p) : b \in MoveBytes}
        ms == {d.val[1] : d \in {x \in decoded : x.ok}}
    IN  ms \cup {[m EXCEPT !.is_castling = TRUE] :
                    m \in {x \in ms : x.piece.piece_type = "King" /\ file(x.to) \in {2, 6}}}

\* a call of apply_move is made after one of the main lines; its move is
\* chosen when the call is made
ApplyCalls ==
    {[NoCall EXCEPT !.fn = "apply_move", !.opening = o] : o \in Openings}

\* main lines before a call of decode_target_square: none; e2-e4, Nf6,
\* e4-e6; the same and Ne4, e6-e8 (a pawn on the last rank); king stays,
\* e7-e5; the same twice more, to e3 and to e1
PawnOpenings ==
    { <<>>, <<207, 65, 207>>, <<207, 65, 207, 65, 207>>, <<0, 207>>,
      <<0, 207, 0, 207, 0, 207>> }

\* move_value is the low nibble of the move byte.  The king has its own
\* calls; the pawn decoder reads the position, the others do not
TargetCalls ==
    {[NoCall EXCEPT !.fn = "decode_target_square", !.piece_type = t,
                    !.move_value = v, !.from_square = sq] :
        t \in {"Queen", "Rook", "Bishop", "Knight"}, v \in 0..15, sq \in 0..63}
    \cup
    {[NoCall EXCEPT !.fn = "decode_target_square", !.piece_type = "Pawn",
                    !.move_value = v, !.from_square = sq, !.opening = o] :
        v \in 0..15, sq \in 0..63, o \in PawnOpenings}

PromotionCalls ==
    {[NoCall EXCEPT !.fn = "decode_pawn_promotion", !.move_value = v] : v \in 0..15}

DateCalls ==
    {[NoCall EXCEPT !.fn = "date_string", !.year = y, !.month = m, !.day = d] :
        y \in Years, m \in Months, d \in Days}

InitCalls ==
    /\ call \in KingCalls \cup ResolverCalls \cup DateCalls \cup ApplyCalls
                 \cup TargetCalls \cup PromotionCalls
    /\ ret = None
    /\ earlier = None
    /\ pc = "call"
    /\ data = <<>>
    /\ pos = 0
    /\ elements = <<>>
    /\ elem_idx = 1
    /\ position = starting_position
    /\ variation_tree = VariationTreeNew
    /\ moves = <<>>
    /\ algebraic_notation = <<>>
    /\ move_count = 0
    /\ in_variation = FALSE
    /\ result = None
    /\ last = NoLast

Return(value) ==
    /\ ret' = Some(value)
    /\ pc' = "returned"
    /\ UNCHANGED <<data, pos, elements, result, call, earlier>>
    /\ UNCHANGED parse_vars

CallDecodeKingTarget ==
    /\ pc = "call"
    /\ call.fn = "decode_king_target"
    /\ Return(decode_king_target(call.move_value, call.from_square))

CallMapScidPieceNumber ==
    /\ pc = "call"
    /\ call.fn = "map_scid_piece_number_to_actual"
    /\ Return(map_scid_piece_number_to_actual(call.scid_piece_num, call.to_move))

CallDateString ==
    /\ pc = "call"
    /\ call.fn = "date_string"
    /\ Return(date_string(call.year, call.month, call.day))

CallDecodeTargetSquare ==
    /\ pc = "call"
    /\ call.fn = "decode_target_square"
    /\ call.opening = <<>>
    /\ Return(decode_target_square(call.piece_type, call.move_value, call.from_square,
                                   position))

CallDecodePawnPromotion ==
    /\ pc = "call"
    /\ call.fn = "decode_pawn_promotion"
    /\ Return(decode_pawn_promotion(call.move_value))

\* the next move of the main line before a call that reads the position
PlayOpening ==
    /\ pc = "call"
    /\ call.fn \in {"apply_move", "decode_target_square"}
    /\ call.opening # <<>>
    /\ position' = PositionAfter(position, Head(call.opening))
    /\ call' = [call EXCEPT !.opening = Tail(@)]
    /\ UNCHANGED <<data, pos, elements, result, ret, earlier, pc, elem_idx, variation_tree,
                   moves, algebraic_notation, move_count, in_variation, last>>

\* a call of apply_move: the position is left as the call left it, also on
\* Err.  apply_move is public: it is called with the moves of the position
\* and with those of the starting position, so also with moves whose source
\* is empty or holds another piece
CallApplyMove ==
    /\ pc = "call"
    /\ call.fn = "apply_move"
    /\ call.opening = <<>>
    /\ \E m \in MovesIn(position) \cup MovesIn(starting_position) :
          /\ \E a \in {apply_move(position, m)} :
                /\ position' = (IF a.ok THEN a.val ELSE a.pos)
                /\ ret' = Some(IF a.ok THEN Ok("unit") ELSE Err(a.err))
          /\ call' = [call EXCEPT !.chess_move = Some(m)]
          /\ last' = Step("direct", MarkerElement("none", 0), Some(m), <<>>)
    /\ pc' = "returned"
    /\ UNCHANGED <<data, pos, elements, result, earlier, elem_idx, variation_tree,
                   moves, algebraic_notation, move_count, in_variation>>

NextCalls ==
    \/ CallDecodeKingTarget
    \/ CallMapScidPieceNumber
    \/ CallDateString
    \/ CallDecodeTargetSquare
    \/ CallDecodePawnPromotion
    \/ PlayOpening
    \/ CallApplyMove

SpecCalls == InitCalls /\ [][NextCalls]_vars

-----------------------------------------------------------------------------
(* Properties *)

Applied == last.kind = "applied"

LastMove == Unwrap(last.chess_move)

Failed == IsSome(result) /\ ~Unwrap(result).ok

Returned(fn) == pc = "returned" /\ call.fn = fn

\* the three views of a position agree
MapsAgree(p) ==
    /\ \A id \in DOMAIN p.piece_locations :
          /\ p.piece_locations[id] \in DOMAIN p.square_occupants
          /\ p.square_occupants[p.piece_locations[id]].id = id
    /\ \A sq \in DOMAIN p.square_occupants :
          /\ p.square_occupants[sq].id \in DOMAIN p.piece_locations
          /\ p.piece_locations[p.square_occupants[sq].id] = sq
    /\ \A sq \in 0..63 : p.board[sq] = MapGet(p.square_occupants, sq)
    /\ \A i, j \in DOMAIN p.piece_locations :
          p.piece_locations[i] = p.piece_locations[j] => i = j

\* C1: in every position reached by applying decoded moves, the id-to-square
\* map, the square-to-piece map and the board agree, and no two ids share a
\* square.
C1_MapsAgree == MapsAgree(position)

\* C2: a decoded move with no captured piece found its destination empty, and
\* after apply_move the destination holds the moved piece under the same id
\* and the source is empty, on the board and in both maps.
C2_QuietMoveRelocates ==
    (Applied /\ IsNone(LastMove.captured_piece)) =>
        /\ last.before.board[LastMove.to] = None
        /\ IsSome(position.board[LastMove.to])
        /\ Unwrap(position.board[LastMove.to]).id = LastMove.piece.id
        /\ Unwrap(position.board[LastMove.to]).color = LastMove.piece.color
        /\ position.board[LastMove.from] = None
        /\ LastMove.from \notin DOMAIN position.square_occupants
        /\ position.square_occupants[LastMove.to].id = LastMove.piece.id
        /\ position.piece_locations[LastMove.piece.id] = LastMove.to

C2_Witness ==
    /\ Applied
    /\ IsNone(LastMove.captured_piece)
    /\ LastMove.from # LastMove.to
    /\ position.board[LastMove.to] = Some(LastMove.piece)

KingsOnBoard(p, color) ==
    {sq \in 0..63 :
        /\ IsSome(p.board[sq])
        /\ Unwrap(p.board[sq]).piece_type = "King"
        /\ Unwrap(p.board[sq]).color = color}

KingsInMap(p, color) ==
    {id \in DOMAIN p.piece_locations :
        LET found == get_piece_by_number(p, id)
        IN  IsSome(found) /\ Unwrap(found).piece_type = "King"
                          /\ Unwrap(found).color = color}

\* C3: in every position reached by applying decoded main-line moves, exactly
\* one White king and exactly one Black king are tracked, on the board and in
\* the id-to-square map.
C3_OneKingPerSide ==
    \A color \in {White, Black} :
        /\ Cardinality(KingsOnBoard(position, color)) = 1
        /\ Cardinality(KingsInMap(position, color)) = 1

AtStart == pc = "tokenize"

C5_ElementPerByte ==
    \A i \in 1..Len(elements) :
        LET e == elements[i]
            b == ByteAt(data, e.offset)
        IN  /\ e.offset \in 0..(Len(data) - 1)
            /\ (i = 1) => e.offset = 0
            /\ (i > 1) => elements[i - 1].offset < e.offset
            /\ (b = 11) => /\ e.kind = "Nag"
                           /\ e.offset + 1 < Len(data)
                           /\ e.nag_value = ByteAt(data, e.offset + 1)
            /\ (b = 12) => e.kind = "Comment"
            /\ (b = 13) => e.kind = "VariationStart"
            /\ (b = 14) => e.kind = "VariationEnd"
            /\ (b = 15) => e.kind = "GameEnd"
            /\ (b \notin 11..15) => /\ e.kind = "Move"
                                    /\ e.piece_num = b \div 16
                                    /\ e.move_value = b % 16
                                    /\ e.raw_byte = b

C5_Witness ==
    /\ Len(elements) = 2
    /\ elements[1].kind = "Nag"
    /\ elements[2].kind = "Move"
    /\ elements[2].piece_num = 12
    /\ elements[2].move_value = 15
    /\ elements[2].offset = 2

\* C6: the king decoder rejects every move value 11-15, so no decodable king
\* move byte is a marker byte.
C6_KingRejectsMarkerValues ==
    (Returned("decode_king_target") /\ call.move_value \in ENCODE_FIRST..ENCODE_LAST) =>
        ~Unwrap(ret).ok

\* number of bytes taken by the i-th element
Width(i) ==
    IF i < Len(elements)
    THEN elements[i + 1].offset - elements[i].offset
    ELSE pos - elements[i].offset

\* C7: a move of any piece index but the queen's takes exactly one byte and
\* a queen move one or two, so the byte after a pawn move byte starts a new
\* element.
C7_MoveWidths ==
    \A i \in 1..Len(elements) :
        (elements[i].kind = "Move") =>
            IF elements[i].piece_num = 1
            THEN Width(i) \in {1, 2}
            ELSE Width(i) = 1

\* C8: map_scid_piece_number_to_actual(i, side) is i for White and i + 16 for
\* Black when i is in 0..15, and a decode error when i is above 15.
C8_PieceNumberMapping ==
    Returned("map_scid_piece_number_to_actual") =>
        IF call.scid_piece_num <= 15
        THEN /\ Unwrap(ret).ok
             /\ Unwrap(ret).val =
                   (IF call.to_move = White THEN call.scid_piece_num
                    ELSE call.scid_piece_num + 16)
        ELSE ~Unwrap(ret).ok

C8_Witness ==
    /\ Returned("map_scid_piece_number_to_actual")
    /\ call.scid_piece_num = 7
    /\ call.to_move = Black
    /\ ret = Some(Ok(23))

DecodeFails ==
    /\ Processing
    /\ Current.kind = "Move"
    /\ ~decode_move_with_position(Current.piece_num, Current.move_value,
                                  Current.raw_byte, position).ok

\* C9: when a move element fails to decode, the parse goes on with the next
\* element, the Position is unchanged, side to move included, and nothing is
\* added to the move list or the notation list.
C9_FailedDecodeIsSkipped ==
    [][DecodeFails =>
        /\ position' = position
        /\ moves' = moves
        /\ algebraic_notation' = algebraic_notation
        /\ elem_idx' = elem_idx + 1
        /\ pc' = "process"
        /\ result' = None]_vars

C9_Witness ==
    /\ last.kind = "decode_error"
    /\ position = last.before
    /\ pc = "process"
    /\ elem_idx <= Len(elements)
    /\ Len(moves) >= 1

TokenizerErrors ==
    {"Missing NAG value byte", "Unterminated comment string",
     "Invalid start position for multi-byte move parsing"}

\* C10: the parse returns an error only for a tokenizer failure or for a
\* variation-end marker met with no open variation; no failure to decode or
\* to apply a move aborts the game.
C10_OnlyStructuralErrors ==
    Failed =>
        \/ /\ Unwrap(result).err \in TokenizerErrors
           /\ last.kind = "none"
           /\ elem_idx = 1
        \/ /\ Unwrap(result).err = "Cannot end variation - not in a variation"
           /\ last.kind = "end_variation_error"
           /\ Current.kind = "VariationEnd"
           /\ variation_tree.current_depth = 0

C10_Witness ==
    /\ Failed
    /\ last.kind = "end_variation_error"
    /\ move_count > Len(moves)
    /\ Len(moves) >= 1

\* the element that starts at pos is cut short by the end of the slice
TruncatedComment ==
    /\ Tokenizing
    /\ ByteAt(data, pos) = 12
    /\ \A i \in (pos + 1)..(Len(data) - 1) : ByteAt(data, i) # 0

TruncatedNag ==
    /\ Tokenizing
    /\ ByteAt(data, pos) = 11
    /\ pos + 1 = Len(data)

\* C11: when the slice ends inside an element, a comment marker with no zero
\* byte after it or an annotation marker with no value byte, tokenization
\* returns an error and no element of the list is processed.
C11_TruncatedElementFails ==
    [][(TruncatedComment \/ TruncatedNag) =>
        /\ pc' = "done"
        /\ IsSome(result')
        /\ ~Unwrap(result').ok
        /\ Unwrap(result').err \in TokenizerErrors
        /\ elem_idx' = 1
        /\ variation_tree' = VariationTreeNew
        /\ moves' = <<>>
        /\ algebraic_notation' = <<>>]_vars

C11_Witness ==
    /\ Failed
    /\ Unwrap(result).err = "Unterminated comment string"
    /\ Len(elements) >= 1
    /\ ByteAt(data, pos) = 12
    /\ pos + 1 < Len(data)

EndsVariation ==
    /\ Processing
    /\ Current.kind = "VariationEnd"
    /\ variation_tree.current_depth >= 1

\* the list at depth d of a tree: the main line for 0
LineAt(t, d) == IF d = 0 THEN t.main_line ELSE t.variation_stack[d]

ElementKinds == [i \in 1..Len(elements) |-> elements[i].kind]

EndsNoVariation ==
    /\ Processing
    /\ Current.kind = "VariationEnd"
    /\ variation_tree.current_depth = 0

\* C13: end_variation at depth 0 returns an error and leaves the main line,
\* the depth and the stack as they were, and the variation-end marker met at
\* depth 0 aborts the parse of the game with an error.
C13_EndVariationAtDepthZero ==
    [][EndsNoVariation =>
        /\ ~end_variation(variation_tree).ok
        /\ variation_tree' = variation_tree
        /\ pc' = "done"
        /\ IsSome(result')
        /\ ~Unwrap(result').ok
        /\ Unwrap(result').err = "Cannot end variation - not in a variation"
        /\ UNCHANGED <<position, moves, algebraic_notation, elem_idx>>]_vars

C13_Witness ==
    /\ Failed
    /\ last.kind = "end_variation_error"
    /\ variation_tree.current_depth = 0
    /\ variation_tree.variation_stack = <<>>
    /\ Len(variation_tree.main_line) = 2
    /\ elem_idx = 3

\* the position reached from p by applying the moves ms[i], ms[i+1], ...
RECURSIVE Replay(_, _, _)
Replay(p, ms, i) ==
    IF i > Len(ms) THEN p
    ELSE LET a == apply_move(p, ms[i])
         IN  IF a.ok THEN Replay(a.val, ms, i + 1) ELSE a.pos

\* C14: while the nesting depth is above 0, processing an element leaves the
\* Position and the list of applied moves unchanged; a variation move, at any
\* depth and index, was decoded against the Position that the applied
\* main-line moves produced, and a move is applied only at depth 0.
C14_VariationsLeavePosition ==
    /\ [][(Processing /\ variation_tree.current_depth > 0) =>
            /\ position' = position
            /\ moves' = moves
            /\ last'.kind # "applied"]_vars
    /\ [][(Processing /\ Current.kind = "Move" /\ variation_tree.current_depth = 0) =>
            last'.kind \in {"applied", "decode_error"}]_vars
    /\ [](pc \in {"process", "done"} => position = Replay(starting_position, moves, 1))
    /\ []((last.kind = "variation_move") =>
            /\ variation_tree.current_depth > 0
            /\ last.before = position
            /\ LET d == decode_move_with_position(last.element.piece_num,
                            last.element.move_value, last.element.raw_byte,
                            Replay(starting_position, moves, 1))
               IN  d.ok /\ d.val[1] = Unwrap(last.chess_move))

\* the third move of a variation, decoded after a nested variation of its
\* second move was closed, with two moves applied on the main line
C14_Witness ==
    /\ last.kind = "variation_move"
    /\ variation_tree.current_depth = 1
    /\ Len(variation_tree.variation_stack[1]) = 3
    /\ Len(variation_tree.variation_stack[1][2].variations) = 1
    /\ Len(moves) = 2
    /\ position # starting_position

\* the bytes an element takes by its kind; a move takes one or two
Extents(e) ==
    CASE e.kind = "Nag" -> {2}
      [] e.kind = "Comment" -> {Len(e.text) + 2}
      [] e.kind = "Move" -> {1, 2}
      [] OTHER -> {1}

NoGameEnd == \A i \in 1..Len(elements) : elements[i].kind # "GameEnd"

\* C15: on a move section with no truncated element and no end-of-game
\* marker, every step of the tokenizer succeeds and moves the read position
\* forward inside the slice, and tokenization ends without error with the
\* read position at the end of the slice and an element list that covers
\* every byte and holds no GameEnd.
C15_ConsumesWholeSlice ==
    /\ [][(Tokenizing /\ ~TruncatedComment /\ ~TruncatedNag) =>
            /\ result' = None
            /\ pos' > pos
            /\ pos' <= Len(data)
            /\ Len(elements') = Len(elements) + 1
            /\ SubSeq(elements', 1, Len(elements)) = elements]_vars
    /\ [][(pc = "tokenize" /\ pos >= Len(data)) => (pc' = "process" /\ result' = None)]_vars
    /\ []((pc = "process" /\ NoGameEnd) =>
            /\ pos = Len(data)
            /\ (Len(data) > 0) => (Len(elements) > 0 /\ elements[1].offset = 0)
            /\ \A i \in 1..Len(elements) : Width(i) \in Extents(elements[i]))

C15_Witness ==
    /\ pc = "process"
    /\ elem_idx = 1
    /\ NoGameEnd
    /\ pos = Len(data)
    /\ Len(data) = 3
    /\ Len(elements) = 2
    /\ elements[1].kind = "Comment"
    /\ elements[2].kind = "Move"

RECURSIVE Number(_)
Number(digits) ==
    IF digits = <<>> THEN 0
    ELSE LET d == {k \in 0..9 : DigitChar[k + 1] = Last(digits)}
             front == Number(SubSeq(digits, 1, Len(digits) - 1))
         IN  IF d = {} \/ front < 0 THEN -1
             ELSE 10 * front + (CHOOSE k \in d : TRUE)

\* C17: date_string is "????.??.??" exactly when the year is 0 or above
\* 2100; otherwise it is ten characters YYYY.MM.DD, zero-padded, where a
\* month outside 1..12 is written 01 and a day outside 1..31 is written 01.
C17_DateString ==
    Returned("date_string") =>
        LET text == Unwrap(ret)
            unknown == <<"?", "?", "?", "?", ".", "?", "?", ".", "?", "?">>
        IN  /\ (text = unknown) <=> (call.year = 0 \/ call.year > 2100)
            /\ (text # unknown) =>
                  /\ Len(text) = 10
                  /\ text[5] = "."
                  /\ text[8] = "."
                  /\ Number(SubSeq(text, 1, 4)) = call.year
                  /\ Number(SubSeq(text, 6, 7)) =
                        (IF call.month \in 1..12 THEN call.month ELSE 1)
                  /\ Number(SubSeq(text, 9, 10)) =
                        (IF call.day \in 1..31 THEN call.day ELSE 1)

C17_Witness ==
    /\ Returned("date_string")
    /\ call.year = 2100
    /\ call.month = 15
    /\ call.day = 9
    /\ ret = Some(<<"2", "1", "0", "0", ".", "0", "1", ".", "0", "9">>)

\* the four castling rights: field, color, home corner of the rook
Rights ==
    { <<"white_kingside", White, 7>>, <<"white_queenside", White, 0>>,
      <<"black_kingside", Black, 63>>, <<"black_queenside", Black, 56>> }

\* C18: after apply_move, a castling right that was set is cleared exactly
\* when the king of its color moved, a rook of its color moved from its home
\* corner, or a rook of its color was captured on its home corner; a rook
\* move that starts elsewhere clears no right.
C18_CastlingRightsCleared ==
    Applied =>
        \A r \in Rights :
            last.before.castling_rights[r[1]] =>
                (~position.castling_rights[r[1]] <=>
                    \/ LastMove.piece.piece_type = "King" /\ LastMove.piece.color = r[2]
                    \/ /\ LastMove.piece.piece_type = "Rook"
                       /\ LastMove.piece.color = r[2]
                       /\ LastMove.from = r[3]
                    \/ /\ IsSome(LastMove.captured_piece)
                       /\ Unwrap(LastMove.captured_piece).piece_type = "Rook"
                       /\ Unwrap(LastMove.captured_piece).color = r[2]
                       /\ LastMove.to = r[3])

\* the corner that apply_castling_rook_move selects for a move
Corner(m) ==
    IF m.piece.color = White
    THEN (IF file(m.to) = 6 THEN 7 ELSE 0)
    ELSE (IF file(m.to) = 6 THEN 63 ELSE 56)

\* a returned call of apply_move on a move of the piece that stands on the
\* source, with the castling flag set, to the c- or g-file, where the corner
\* selected by color and file holds no rook
FlaggedWithoutRook ==
    /\ Returned("apply_move")
    /\ LastMove.is_castling
    /\ file(LastMove.to) \in {2, 6}
    /\ last.before.board[LastMove.from] = Some(LastMove.piece)
    /\ \/ IsNone(last.before.board[Corner(LastMove)])
       \/ Unwrap(last.before.board[Corner(LastMove)]).piece_type # "Rook"

Decoded == last.kind \in {"applied", "variation_move"}

\* C20: a decoded move has the castling flag set only if the moving piece is
\* a king on its own home square, e1 for White and e8 for Black, and the
\* destination is two files away on the same rank.
C20_CastlingFlagOnlyFromHome ==
    (Decoded /\ LastMove.is_castling) =>
        /\ LastMove.piece.piece_type = "King"
        /\ LastMove.from = (IF LastMove.piece.color = White
                            THEN from_algebraic("e", 1).val
                            ELSE from_algebraic("e", 8).val)
        /\ rank(LastMove.to) = rank(LastMove.from)
        /\ Abs(file(LastMove.to) - file(LastMove.from)) = 2

\* the corner selected by the king's color and destination file holds a
\* rook of the king's color
CornerHasOwnRook(p, m) ==
    /\ IsSome(p.board[Corner(m)])
    /\ Unwrap(p.board[Corner(m)]).piece_type = "Rook"
    /\ Unwrap(p.board[Corner(m)]).color = m.piece.color

\* a king move from the e-file to the c- or g-file came out of the decoder
\* while the matching corner held no rook of the king's color
KingToCornerFileWithoutRook ==
    /\ last.kind \in {"applied", "variation_move", "apply_error"}
    /\ LastMove.piece.piece_type = "King"
    /\ file(LastMove.from) = 4
    /\ file(LastMove.to) \in {2, 6}
    /\ ~CornerHasOwnRook(last.before, LastMove)

\* C21: a decoded king move from the e-file to the c- or g-file, with no
\* rook of the king's color on the matching corner, has the castling flag
\* clear and a king-move notation (K, x on a capture, the destination); on
\* the main line it is applied without error as a plain king move: the king
\* stands on the destination, the source is empty, and no other square
\* changes, so no rook is relocated.
C21_CastlingDowngraded ==
    KingToCornerFileWithoutRook =>
        /\ ~LastMove.is_castling
        /\ last.kind # "apply_error"
        /\ ~Failed
        /\ last.notation =
              <<"K">> \o (IF IsSome(last.before.board[LastMove.to]) THEN <<"x">> ELSE <<>>)
                      \o to_algebraic(LastMove.to)
        /\ (last.kind = "applied") =>
              /\ position.board[LastMove.to] = Some(LastMove.piece)
              /\ position.board[LastMove.from] = None
              /\ position.piece_locations[LastMove.piece.id] = LastMove.to
              /\ \A sq \in (0..63) \ {LastMove.from, LastMove.to} :
                    position.board[sq] = last.before.board[sq]
              /\ position.to_move = opposite(last.before.to_move)
        /\ (last.kind = "variation_move") => position = last.before

\* the rook of h1 has gone to h3 and the king went from e1 to g1, taking the
\* knight there: written Kxg1, the corner h1 stays empty
C21_Witness ==
    /\ KingToCornerFileWithoutRook
    /\ last.kind = "applied"
    /\ LastMove.from = 4
    /\ LastMove.to = 6
    /\ last.before.board[7] = None
    /\ last.notation = <<"K", "x", "g", "1">>
    /\ position.board[5] = last.before.board[5]

\* C22: for a king on any square, move value 9 decodes to the c-file square
\* of a home rank (c1 or c8) or to a decode error, and move value 10 to the
\* g-file square of a home rank (g1 or g8) or to a decode error; neither
\* value yields any other square.
C22_CastlingValuesCanonical ==
    (Returned("decode_king_target") /\ call.move_value \in {9, 10} /\ Unwrap(ret).ok) =>
        /\ rank(Unwrap(ret).val) \in {0, 7}
        /\ file(Unwrap(ret).val) = (IF call.move_value = 9 THEN 2 ELSE 6)

\* file and rank of a and b each differ by at most 1
Adjacent(a, b) ==
    /\ Abs(file(a) - file(b)) <= 1
    /\ Abs(rank(a) - rank(b)) <= 1

\* C23: for a king on any square, move value 0 decodes to the source square
\* itself, and each value 1-8 decodes to a square adjacent to the source or
\* to a decode error: a delta that would leave the board yields no square.
C23_KingStepsAdjacent ==
    Returned("decode_king_target") =>
        /\ (call.move_value = 0) => ret = Some(Ok(call.from_square))
        /\ (call.move_value \in 1..8 /\ Unwrap(ret).ok) =>
              /\ Unwrap(ret).val # call.from_square
              /\ Adjacent(call.from_square, Unwrap(ret).val)

ReturnedTarget(t) == Returned("decode_target_square") /\ call.piece_type = t

\* the file and rank differences are 1 and 2 in some order
KnightJump(a, b) ==
    {Abs(file(a) - file(b)), Abs(rank(a) - rank(b))} = {1, 2}

\* C24: for a knight on any square and any move value 1-8, the decoded
\* destination is an L-shaped knight move from the source or the decode is
\* an error.
C24_KnightJumps ==
    (ReturnedTarget("Knight") /\ call.move_value \in 1..8 /\ Unwrap(ret).ok) =>
        KnightJump(call.from_square, Unwrap(ret).val)

\* C25: for a bishop on square s with move value v, the decoded destination
\* has file v & 7 and lies on a diagonal through s: its file change and its
\* rank change have equal magnitude.
C25_BishopOnDiagonal ==
    (ReturnedTarget("Bishop") /\ Unwrap(ret).ok) =>
        /\ file(Unwrap(ret).val) = call.move_value % 8
        /\ Abs(file(Unwrap(ret).val) - file(call.from_square))
              = Abs(rank(Unwrap(ret).val) - rank(call.from_square))

\* a returned call of the pawn decoder on a square that holds a pawn
ReturnedPawnTarget ==
    /\ ReturnedTarget("Pawn")
    /\ IsSome(position.board[call.from_square])
    /\ Unwrap(position.board[call.from_square]).piece_type = "Pawn"

\* the square df files to the right and dr ranks ahead of sq for a pawn of
\* the color, as a set: empty when it is off the board
SquareAhead(sq, color, df, dr) ==
    LET f == file(sq) + df
        r == IF color = White THEN rank(sq) + dr ELSE rank(sq) - dr
    IN  IF f \in 0..7 /\ r \in 0..7 THEN {8 * r + f} ELSE {}

C26_WitnessOffBoard ==
    /\ ReturnedPawnTarget
    /\ rank(call.from_square) = 7
    /\ Unwrap(position.board[call.from_square]).color = White
    /\ call.move_value = 4
    /\ ~Unwrap(ret).ok

\* C27: for a rook, and for a queen move decoded from a single byte, move
\* value v >= 8 decodes to rank v - 8 on the source file and v < 8 to file v
\* on the source rank; for every square and every value 0-15 the decode
\* succeeds.
C27_RookAndQueenTargets ==
    (ReturnedTarget("Rook") \/ ReturnedTarget("Queen")) =>
        /\ Unwrap(ret).ok
        /\ IF call.move_value >= 8
           THEN /\ rank(Unwrap(ret).val) = call.move_value - 8
                /\ file(Unwrap(ret).val) = file(call.from_square)
           ELSE /\ file(Unwrap(ret).val) = call.move_value
                /\ rank(Unwrap(ret).val) = rank(call.from_square)

\* the queen on d1 with value 11: d4
C27_Witness ==
    /\ ReturnedTarget("Queen")
    /\ call.from_square = 3
    /\ call.move_value = 11
    /\ ret = Some(Ok(27))

\* the move came out of the decoder
CameOutOfDecoder == last.kind \in {"applied", "variation_move", "apply_error"}

\* the square one rank behind the destination, toward the mover's own side
Behind(m) == IF m.piece.color = White THEN m.to - 8 ELSE m.to + 8

\* C28: a decoded move is flagged en passant exactly when a pawn lands on the
\* current en-passant target with a file change; after apply_move on such a
\* move the square directly behind the destination is empty, the piece that
\* stood there is gone from both maps, and that piece is the opposing pawn
\* whose two-square push (the last move applied) set the target.
C28_EnPassant ==
    /\ CameOutOfDecoder =>
          (LastMove.is_en_passant <=>
              /\ LastMove.piece.piece_type = "Pawn"
              /\ last.before.en_passant_target = Some(LastMove.to)
              /\ file(LastMove.from) # file(LastMove.to))
    /\ (CameOutOfDecoder /\ LastMove.is_en_passant /\ last.kind # "variation_move") =>
          /\ Applied
          /\ Behind(LastMove) \in 0..63
          /\ IsSome(last.before.board[Behind(LastMove)])
          /\ LET victim == Unwrap(last.before.board[Behind(LastMove)])
                 push == Last(last.before.move_history)
             IN  /\ victim.piece_type = "Pawn"
                 /\ victim.color = opposite(LastMove.piece.color)
                 /\ push.piece.id = victim.id
                 /\ push.to = Behind(LastMove)
                 /\ Abs(rank(push.to) - rank(push.from)) = 2
                 /\ position.board[Behind(LastMove)] = None
                 /\ Behind(LastMove) \notin DOMAIN position.square_occupants
                 /\ victim.id \notin DOMAIN position.piece_locations

\* after e2-e4 the black pawn on d4 takes on e3: e4 is empty
C28_Witness ==
    /\ Applied
    /\ LastMove.is_en_passant
    /\ LastMove.piece.color = Black
    /\ LastMove.to = 20
    /\ last.before.board[28] = Some(Piece("Pawn", White, 12))
    /\ position.board[28] = None
    /\ position.board[20] = Some(LastMove.piece)

\* a call of apply_move on a move with a promotion type has returned Ok
PromotionApplied ==
    /\ Returned("apply_move")
    /\ Unwrap(ret).ok
    /\ IsSome(LastMove.promotion)

\* C29: after apply_move on a move with promotion type T, the destination
\* holds a piece of type T with the color and id of the piece that moved, on
\* the board and in the square-to-piece map, the id-to-square map sends that
\* id to the destination, and no new id is created.
C29_PromotionKeepsId ==
    PromotionApplied =>
        LET pawn == Unwrap(last.before.board[LastMove.from])
            promoted == Piece(Unwrap(LastMove.promotion), pawn.color, pawn.id)
        IN  /\ position.board[LastMove.to] = Some(promoted)
            /\ LastMove.to \in DOMAIN position.square_occupants
            /\ position.square_occupants[LastMove.to] = promoted
            /\ position.piece_locations[pawn.id] = LastMove.to
            /\ DOMAIN position.piece_locations \subseteq DOMAIN last.before.piece_locations
            /\ \A sq \in (0..63) \ {LastMove.to} :
                  IsSome(position.board[sq]) => Unwrap(position.board[sq]).id # pawn.id

\* the black e-pawn goes from e7 to e6 and becomes a knight under id 28
C29_Witness ==
    /\ PromotionApplied
    /\ LastMove.from = 52
    /\ LastMove.to = 44
    /\ LastMove.promotion = Some("Knight")
    /\ position.board[44] = Some(Piece("Knight", Black, 28))
    /\ position.square_occupants[44] = Piece("Knight", Black, 28)

\* a call of apply_move has returned Ok
MoveApplied == Returned("apply_move") /\ Unwrap(ret).ok

TwoRankPawnMove(m) ==
    /\ m.piece.piece_type = "Pawn"
    /\ Abs(rank(m.to) - rank(m.from)) = 2

\* C30: after every successful apply_move the en-passant target is set if
\* and only if the move just applied was a pawn move of exactly two ranks,
\* and it is then the square between source and destination on the pawn's
\* file; after any other move it is empty, whatever it was before.
C30_EnPassantTarget ==
    MoveApplied =>
        IF TwoRankPawnMove(LastMove)
        THEN /\ file(LastMove.to) = file(LastMove.from)
             /\ IsSome(position.en_passant_target)
             /\ file(Unwrap(position.en_passant_target)) = file(LastMove.from)
             /\ 2 * rank(Unwrap(position.en_passant_target))
                   = rank(LastMove.from) + rank(LastMove.to)
        ELSE position.en_passant_target = None

\* after e2-e4 left the target e3, a knight move is applied: no target
C30_Witness ==
    /\ MoveApplied
    /\ last.before.en_passant_target = Some(20)
    /\ LastMove.piece.piece_type = "Knight"
    /\ position.en_passant_target = None

\* after e2-e4 left the target e3, d7-d5 is applied: the target is d6
C30_WitnessSet ==
    /\ MoveApplied
    /\ last.before.en_passant_target = Some(20)
    /\ LastMove.from = 51
    /\ LastMove.to = 35
    /\ position.en_passant_target = Some(43)

\* the number of successful apply_move calls since the starting position:
\* each one appends its move to the history
Successes(p) == Len(p.move_history)

\* C31: after k successful apply_move calls from the starting position the
\* side to move is White if and only if k is even and the full-move number
\* is 1 + floor(k / 2); the half-move clock is 0 after a pawn move or a move
\* with a recorded capture and one more than before after any other move.
C31_TurnAndCounters ==
    /\ (position.to_move = White) <=> (Successes(position) % 2 = 0)
    /\ position.full_moves = 1 + (Successes(position) \div 2)
    /\ Applied =>
          /\ Successes(position) = Successes(last.before) + 1
          /\ position.half_moves =
                (IF LastMove.piece.piece_type = "Pawn" \/ IsSome(LastMove.captured_piece)
                 THEN 0
                 ELSE last.before.half_moves + 1)

\* the third move applied is a king move with no recorded capture: Black is
\* to move in full move 2 and the clock is one more than before
C31_Witness ==
    /\ Applied
    /\ Successes(position) = 3
    /\ position.to_move = Black
    /\ position.full_moves = 2
    /\ LastMove.piece.piece_type = "King"
    /\ IsNone(LastMove.captured_piece)
    /\ position.half_moves = last.before.half_moves + 1

\* a returned call of apply_move whose source square was empty or held a
\* piece with another id than the piece named in the move
SourceMismatch ==
    /\ Returned("apply_move")
    /\ \/ IsNone(last.before.board[LastMove.from])
       \/ Unwrap(last.before.board[LastMove.from]).id # LastMove.piece.id

\* C32: apply_move returns an error and leaves the position unchanged when
\* the source square of the move is empty or holds a piece whose id differs
\* from the id of the piece named in the move.
C32_SourceMismatchRejected ==
    SourceMismatch =>
        /\ ~Unwrap(ret).ok
        /\ position = last.before

\* after the rook of h1 went to h3 and the queen to h1, a move of the rook
\* from h1 finds the queen there
C32_Witness ==
    /\ SourceMismatch
    /\ LastMove.from = 7
    /\ LastMove.piece = Piece("Rook", White, 9)
    /\ last.before.board[7] = Some(Piece("Queen", White, 1))
    /\ ret = Some(Err("Piece ID mismatch"))
    /\ position = last.before

\* after Nh3 a move of the knight from g1 finds the square empty
C32_WitnessEmpty ==
    /\ SourceMismatch
    /\ LastMove.from = 6
    /\ IsNone(last.before.board[6])
    /\ ret = Some(Err("No piece at source square"))

\* the element kind that starts with a marker byte
MarkerKind(byte) ==
    CASE byte = ENCODE_NAG          -> "Nag"
      [] byte = ENCODE_COMMENT      -> "Comment"
      [] byte = ENCODE_START_MARKER -> "VariationStart"
      [] byte = ENCODE_END_MARKER   -> "VariationEnd"
      [] byte = ENCODE_END_GAME     -> "GameEnd"

\* the i-th element is a move whose byte is followed by a marker byte
MoveBeforeMarker(i) ==
    /\ elements[i].kind = "Move"
    /\ elements[i].offset + 1 < Len(data)
    /\ ByteAt(data, elements[i].offset + 1) \in ENCODE_FIRST..ENCODE_LAST

\* C33: no byte with value 11-15 is consumed as a move extension byte: a
\* move whose byte is followed by a marker byte takes one byte, for every
\* piece index and move value, and the element after it, once tokenized,
\* starts at the marker byte and is of the marker's kind.
C33_MarkerNeverExtension ==
    \A i \in 1..Len(elements) :
        MoveBeforeMarker(i) =>
            /\ Width(i) = 1
            /\ (i < Len(elements)) =>
                  /\ elements[i + 1].offset = elements[i].offset + 1
                  /\ elements[i + 1].kind =
                        MarkerKind(ByteAt(data, elements[i].offset + 1))

\* the double push of the e-pawn (a value that asks for a second byte) is
\* followed by the end-of-game byte, which is an element of its own
C33_Witness ==
    /\ Len(elements) = 2
    /\ MoveBeforeMarker(1)
    /\ elements[1].piece_num = 12
    /\ elements[1].move_value = 15
    /\ needs_pawn_second_byte(elements[1].move_value)
    /\ elements[2] = MarkerElement("GameEnd", 1)

\* every node of the line, and of the lines attached below it, that has a
\* variation attached holds a Move element
RECURSIVE AttachedOnlyToMoves(_)
AttachedOnlyToMoves(line) ==
    \A i \in 1..Len(line) :
        /\ (Len(line[i].variations) > 0) => line[i].element.kind = "Move"
        /\ \A j \in 1..Len(line[i].variations) :
              AttachedOnlyToMoves(line[i].variations[j].main_line)

\* C34: in the tree built from any element stream, every node that has at
\* least one attached variation holds a Move element: no Comment or
\* Annotation node has variations attached.
C34_VariationsOnlyOnMoves ==
    /\ AttachedOnlyToMoves(variation_tree.main_line)
    /\ \A d \in 1..Len(variation_tree.variation_stack) :
          AttachedOnlyToMoves(variation_tree.variation_stack[d])

\* the element loop is about to call add_move: for a move, decoded or not,
\* a comment or an annotation
AddsNode ==
    /\ Processing
    /\ Current.kind \in {"Move", "Comment", "Nag"}

\* the list after is the list before with one node for the element appended
AppendedNode(before, after, element) ==
    /\ Len(after) = Len(before) + 1
    /\ SubSeq(after, 1, Len(before)) = before
    /\ after[Len(after)].element = element
    /\ after[Len(after)].variations = <<>>

\* C35: after any sequence of start_variation, end_variation and add_move
\* calls the depth equals the number of lists on the variation stack, and
\* add_move appends its node to the main line if and only if the depth is 0
\* and otherwise to the list on top of the stack, changing no other list.
C35_DepthIsStackHeight ==
    /\ [](variation_tree.current_depth = Len(variation_tree.variation_stack))
    /\ [][AddsNode =>
            LET t == variation_tree
                d == t.current_depth
            IN  /\ variation_tree'.current_depth = d
                /\ Len(variation_tree'.variation_stack) = Len(t.variation_stack)
                /\ (d = 0) <=> (variation_tree'.main_line /= t.main_line)
                /\ \A k \in 0..Len(t.variation_stack) :
                      IF k = d
                      THEN AppendedNode(LineAt(t, k), LineAt(variation_tree', k), Current)
                      ELSE LineAt(variation_tree', k) = LineAt(t, k)]_vars

\* nodes were added at depth 0, at depth 1 and at depth 2, and both
\* variations are still open
C35_Witness ==
    /\ variation_tree.current_depth = 2
    /\ Len(variation_tree.variation_stack) = 2
    /\ Len(variation_tree.main_line) > 0
    /\ Len(variation_tree.variation_stack[1]) > 0
    /\ Len(variation_tree.variation_stack[2]) > 0

\* the element loop decoded a move and rendered its notation
MoveRendered == last.kind \in {"applied", "apply_error", "variation_move"}

PieceLetter ==
    [t \in {"King", "Queen", "Rook", "Bishop", "Knight", "Pawn"} |->
        CASE t = "King" -> "K" [] t = "Queen" -> "Q" [] t = "Rook" -> "R"
          [] t = "Bishop" -> "B" [] t = "Knight" -> "N" [] t = "Pawn" -> ""]

\* the characters of s from the i-th on
From(s, i) == SubSeq(s, i, Len(s))

\* C36: the notation of a decoded move is O-O when the castling flag is set
\* and the destination file is greater than the source file, O-O-O when it
\* is set and the destination file is smaller; otherwise it is the piece
\* letter (nothing for a pawn), then x exactly when a captured piece is
\* recorded, then the destination square text, then =Q, =R, =B or =N exactly
\* when a promotion is recorded.
C36_NotationRendering ==
    MoveRendered =>
        LET m == LastMove
            n == last.notation
            letter == IF m.piece.piece_type = "Pawn" THEN 0 ELSE 1
            x == IF IsSome(m.captured_piece) THEN 1 ELSE 0
            rest == From(n, letter + x + 3)
        IN  IF m.is_castling
            THEN /\ (file(m.to) > file(m.from)) => n = <<"O", "-", "O">>
                 /\ (file(m.to) < file(m.from)) => n = <<"O", "-", "O", "-", "O">>
            ELSE /\ Len(n) >= letter + x + 2
                 /\ (letter = 1) => n[1] = PieceLetter[m.piece.piece_type]
                 /\ (x = 1) => n[letter + 1] = "x"
                 /\ n[letter + x + 1] = FileChar[file(m.to) + 1]
                 /\ n[letter + x + 2] = RankChar[rank(m.to) + 1]
                 /\ IF IsSome(m.promotion)
                    THEN /\ Len(rest) = 2
                         /\ rest[1] = "="
                         /\ rest[2] = PieceLetter[Unwrap(m.promotion)]
                         /\ rest[2] \in {"Q", "R", "B", "N"}
                    ELSE rest = <<>>

\* a pawn takes and promotes: the notation is x, the square and the suffix
C36_Witness ==
    /\ MoveRendered
    /\ ~LastMove.is_castling
    /\ LastMove.piece.piece_type = "Pawn"
    /\ IsSome(LastMove.captured_piece)
    /\ IsSome(LastMove.promotion)
    /\ Len(last.notation) = 5
    /\ last.notation[1] = "x"

\* a king castles to the g-file and the notation is O-O
C36_WitnessCastling ==
    /\ MoveRendered
    /\ LastMove.is_castling
    /\ file(LastMove.to) > file(LastMove.from)
    /\ last.notation = <<"O", "-", "O">>

\* a piece takes: letter, x and square
C36_WitnessPieceTakes ==
    /\ MoveRendered
    /\ ~LastMove.is_castling
    /\ LastMove.piece.piece_type \notin {"Pawn", "King"}
    /\ IsSome(LastMove.captured_piece)
    /\ Len(last.notation) = 4

\* the elements held by the nodes of a line and of the variations attached
\* below it, in the order of a walk from the first node
RECURSIVE HeldBy(_), HeldByVariations(_)
HeldBy(line) ==
    IF line = <<>> THEN <<>>
    ELSE <<Head(line).element>> \o HeldByVariations(Head(line).variations)
            \o HeldBy(Tail(line))

HeldByVariations(trees) ==
    IF trees = <<>> THEN <<>>
    ELSE HeldBy(Head(trees).main_line) \o HeldByVariations(Tail(trees))

\* how many times e occurs in the sequence s
Occurrences(s, e) == Cardinality({i \in 1..Len(s) : s[i] = e})

ParseSucceeded == pc = "done" /\ IsSome(result) /\ Unwrap(result).ok

\* C37: when a game parse succeeds, every move, comment and annotation
\* element of the stream up to the end-of-game marker is held by exactly one
\* node reachable from the main line of the tree, directly or through
\* attached variations.
C37_NoElementDropped ==
    ParseSucceeded =>
        \A i \in 1..Len(elements) :
            elements[i].kind \in {"Move", "Comment", "Nag"} =>
                Occurrences(HeldBy(variation_tree.main_line), elements[i]) = 1

\* the element loop decoded a move on the main line
MainLineMoveDecoded == last.kind \in {"applied", "apply_error"}

\* C38: in every state reachable by parsing main-line move bytes from the
\* starting position, every move that decodes successfully moves a piece
\* whose color is the side to move.
C38_MovesOwnPiece ==
    MainLineMoveDecoded => LastMove.piece.color = last.before.to_move

\* C39: the captured piece recorded for a decoded move is never the moving
\* piece itself: a move whose destination equals its source (king move
\* value 0) records no capture, its notation contains no x, and applying it
\* does not reset the half-move clock.
C39_NoSelfCapture ==
    MoveRendered =>
        /\ LastMove.captured_piece /= Some(LastMove.piece)
        /\ (LastMove.to = LastMove.from) =>
              /\ IsNone(LastMove.captured_piece)
              /\ \A i \in 1..Len(last.notation) : last.notation[i] /= "x"
              /\ Applied => position.half_moves = last.before.half_moves + 1

\* C40: in the result of parse_game_with_variation_trees the notation list
\* and the move list have the same length and the i-th notation string is
\* the rendering of the i-th move, for every input, including inputs that
\* contain variations.
C40_NotationsMatchMoves ==
    ParseSucceeded =>
        /\ Len(algebraic_notation) = Len(moves)
        /\ \A i \in 1..Len(moves) :
              /\ i <= Len(algebraic_notation)
              /\ algebraic_notation[i] =
                    generate_basic_algebraic_notation(moves[i], position).val

====
